---- MODULE Spec2Model ----
(***************************************************************************)
(* The NFS client write-back cache of fs/nfs/write.c: write requests       *)
(* (struct nfs_page), the inode's writeback hash, dirty list and commit    *)
(* list, the global request count with its soft and hard limits, the       *)
(* coalescing of dirty requests into WRITE calls, the WRITE and COMMIT     *)
(* completion handlers and nfs_sync_file.                                  *)
(*                                                                         *)
(* One inode with one open file is modelled in full; the requests of the   *)
(* other inodes of the mount appear only in the global count.  The         *)
(* threads are the writers (user processes inside nfs_updatepage) and the  *)
(* flush daemon, which runs nfs_flush_timeout and nfs_commit_timeout.      *)
(* Each thread is at a position (pc) in the code; a step of a thread is a  *)
(* stretch of code between two points where it can sleep or where the     *)
(* shared structures are visible to the others.  RPC replies are           *)
(* delivered by the completion actions.                                    *)
(***************************************************************************)
EXTENDS Integers, Sequences, FiniteSets, TLC

\* ------------------------------------------------------------------ bounds
NWriters == 2
NPages == 3
\* operations of a run of Spec
MaxWrites == 2
MaxSweeps == 1
MaxFails == 1
\* operations of a run of SpecErr
ErrWrites == 2
ErrFails == 2
\* operations of a run of SpecCommit
CommitWrites == 2
CommitSweeps == 4
\* operations of a run of SpecAdmit
AdmitWrites == 2
AdmitFails == 1
AdmitReleases == 1
\* operations of a run of SpecBatch
BatchWrites == 2
BatchSweeps == 3
BatchFails == 1
\* operations of a run of SpecLive
LiveWrites == 2
\* operations of a run of SpecUnbuffered
UnbufferedWrites == 2
\* operations of a run of SpecSamePage
SamePageWrites == 2
SamePageFails == 1
SamePageReleases == 2
\* operations of a run of SpecSync
SyncWrites == 3
SyncFails == 1
\* operations of a run of SpecStrategy
StrategyWrites == 3
\* operations of a run of SpecRace
RaceWrites == 2
RaceFails == 1
RaceReleases == 1
\* scaled program constants: bytes of a page, pages of a WRITE call (wpages),
\* and the limits of nfs_flushd.h
PAGE_CACHE_SIZE == 2
WPages == 2
MAX_REQUEST_SOFT == 2
MAX_REQUEST_HARD == 3
NFS_STRATEGY_PAGES == 8
\* nfs_nr_requests is an unsigned int; its width is scaled down to 16 bits
UINT_MAX == 65535

\* errno values used by the code
EIO == 5
ENOMEM == 12
ETIMEDOUT == 110

\* stable_how values of the NFSv3 protocol
NFS_UNSTABLE == 0
NFS_DATA_SYNC == 1
NFS_FILE_SYNC == 2

\* the flush daemon, and the writers
Flushd == 0
Writers == 1..NWriters
Threads == {Flushd} \cup Writers

\* slab objects: an nfs_page for each request the limits admit and one more,
\* an nfs_write_data for each
NReqs == MAX_REQUEST_HARD + 1
Reqs == 1..NReqs
Rpcs == 1..NReqs
Pages == 0..(NPages - 1)
Verfs == {1, 2}
NoReq == 0

FLUSH_SYNC == "FLUSH_SYNC"
FLUSH_STABLE == "FLUSH_STABLE"
FLUSH_WAIT == "FLUSH_WAIT"

\* list heads: the inode's two lists, each thread's local LIST_HEAD, and the
\* pages list of each nfs_write_data
DirtyList == <<"dirty", 0>>
CommitList == <<"commit", 0>>
HeadList(t) == <<"head", t>>
OneList(t) == <<"one_request", t>>
DataList(k) == <<"data", k>>
NoList == <<"null", 0>>
ListIds == {DirtyList, CommitList} \cup {HeadList(t) : t \in Threads}
               \cup {OneList(t) : t \in Threads} \cup {DataList(k) : k \in Rpcs}

VARIABLES
    reqs,             \* the nfs_page structs
    writeback,        \* inode->u.nfs_i.writeback (the hash), head first
    lists,            \* the wb_list lists, by list head
    npages, ndirty, ncommit,
    nfs_nr_requests,
    f_error,          \* file->f_error
    request_wait,     \* the threads asleep on cache->request_wait
    hist,             \* history: what happened to f_error and to requests
    rpcs,             \* the nfs_write_data of the RPC tasks in flight
    pc, loc,          \* each thread's position and locals
    sigpending,       \* threads with a signal pending
    others,           \* requests of the other inodes counted in nfs_nr_requests
    version,          \* NFS_PROTO(inode)->version of the mount, 2 or 3
    wsize,            \* NFS_SERVER(inode)->wsize of the mount, in bytes
    budget            \* operations and failures the run may still start

heapvars == <<reqs, writeback, lists, npages, ndirty, ncommit, nfs_nr_requests,
              f_error, request_wait, hist>>

vars == <<reqs, writeback, lists, npages, ndirty, ncommit, nfs_nr_requests,
          f_error, request_wait, hist, rpcs, pc, loc, sigpending, others, version, wsize, budget>>

\* ---------------------------------------------------------------- helpers
Min(a, b) == IF a < b THEN a ELSE b
Max(a, b) == IF a > b THEN a ELSE b

\* Once({e : s \in {s0}}) is e with s standing for the value of s0.  An
\* operator on the heap is written this way so that its argument, usually the
\* result of the call before it, is computed once and not again at every
\* place the body names it.
Once(S) == CHOOSE x \in S : TRUE

Range(s) == {s[i] : i \in 1..Len(s)}

RECURSIVE SeqRemove(_, _)
SeqRemove(s, x) ==
    IF s = <<>> THEN <<>>
    ELSE IF Head(s) = x THEN Tail(s)
    ELSE <<Head(s)>> \o SeqRemove(Tail(s), x)

\* a freed (or never allocated) nfs_page, as nfs_page_alloc's memset leaves it;
\* redirtied is history: a COMMIT reply with another verifier has sent the
\* request back to the dirty list
nfs_page_alloc ==
    [alive |-> FALSE, wb_page |-> 0, wb_offset |-> 0, wb_bytes |-> 0,
     wb_count |-> 0, busy |-> FALSE, wb_hash |-> FALSE, wb_list |-> FALSE,
     wb_list_head |-> NoList, wb_verf |-> 0, redirtied |-> FALSE]

\* history: the first and the last error stored in f_error since it was last
\* cleared, the kind of call ("write" or "commit") that stored the last one,
\* and whether a request that was sent back to the dirty list by a COMMIT
\* reply has since been removed by a COMMIT reply with its verifier, and the
\* checks of nfs_release_request that have fired ("list", "hashed", "locked")
NoHist == [first |-> 0, last |-> 0, call |-> "", converged |-> FALSE, printk |-> {}]

\* The shared state as one record, so that the helpers below can be chained
\* the way the C code chains its calls.
Heap ==
    [reqs |-> reqs, writeback |-> writeback, lists |-> lists,
     npages |-> npages, ndirty |-> ndirty, ncommit |-> ncommit,
     nr |-> nfs_nr_requests, f_error |-> f_error, wait |-> request_wait,
     hist |-> hist]

SetHeap(s0) ==
    \E s \in {s0} :
    /\ reqs' = s.reqs
    /\ writeback' = s.writeback
    /\ lists' = s.lists
    /\ npages' = s.npages
    /\ ndirty' = s.ndirty
    /\ ncommit' = s.ncommit
    /\ nfs_nr_requests' = s.nr
    /\ f_error' = s.f_error
    /\ request_wait' = s.wait
    /\ hist' = s.hist

NFS_WBACK_BUSY(s, r) == s.reqs[r].busy

page_index(s, r) == s.reqs[r].wb_page

\* the messages printed so far, with the message what added when the
\* request is not busy
unlocked_request(s0, r, printed, what) ==
    Once({
        IF NFS_WBACK_BUSY(s, r) THEN printed ELSE printed \cup {what}
        : s \in {s0}})

\* nfs_list_add_request's walk from the tail: the position after the last
\* entry whose page index is below req's
SortedPos(s0, lst, r) ==
    Once({
        LET below == {i \in 1..Len(lst) : page_index(s, lst[i]) < page_index(s, r)}
        IN  IF below = {} THEN 0
            ELSE CHOOSE i \in below : \A j \in below : j <= i
        : s \in {s0}})

\* nfs_list_add_request adding at the tail, without the walk
nfs_list_add_request_tail(s0, r, head) ==
    Once({
        IF s.reqs[r].wb_list THEN s
        ELSE IF ~s.reqs[r].wb_hash THEN s
        ELSE [s EXCEPT !.lists[head] = Append(@, r),
                       !.reqs[r].wb_list = TRUE,
                       !.reqs[r].wb_list_head = head]
        : s \in {s0}})

nfs_list_add_request(s0, r, head) ==
    Once({
        IF s.reqs[r].wb_list
        THEN [s EXCEPT !.hist.printk = @ \cup {"Add to list failed"}]
        ELSE IF ~s.reqs[r].wb_hash
        THEN [s EXCEPT !.hist.printk =
                          @ \cup {"Unhashed request attempted added to a list"}]
        ELSE LET lst == s.lists[head]
                 k == SortedPos(s, lst, r)
             IN  [s EXCEPT
                     !.lists[head] = SubSeq(lst, 1, k) \o <<r>> \o SubSeq(lst, k + 1, Len(lst)),
                     !.reqs[r].wb_list = TRUE,
                     !.reqs[r].wb_list_head = head,
                     !.hist.printk = unlocked_request(s, r, @,
                                     "unlocked request attempted added to list")]
        : s \in {s0}})

\* nfs_list_remove_request with the list_del left out for a request on the
\* dirty list: the fields are cleared and the entry stays where it is
nfs_list_remove_request_keep(s0, r) ==
    Once({
        IF ~s.reqs[r].wb_list THEN s
        ELSE [s EXCEPT
                 !.lists[s.reqs[r].wb_list_head] =
                     IF s.reqs[r].wb_list_head = DirtyList THEN @ ELSE SeqRemove(@, r),
                 !.reqs[r].wb_list = FALSE,
                 !.reqs[r].wb_list_head = NoList]
        : s \in {s0}})

nfs_list_remove_request(s0, r) ==
    Once({
        IF ~s.reqs[r].wb_list THEN s
        ELSE [s EXCEPT
                 !.lists[s.reqs[r].wb_list_head] = SeqRemove(@, r),
                 !.reqs[r].wb_list = FALSE,
                 !.reqs[r].wb_list_head = NoList,
                 !.hist.printk = unlocked_request(s, r, @,
                                     "unlocked request attempted removed from list")]
        : s \in {s0}})

\* the tail of nfs_release_request, once wb_count has reached zero: the
\* struct is freed, the count goes down and request_wait is woken
\* the checks of nfs_release_request that fire for a request whose count
\* has gone to 0
released_while(s0, r) ==
    Once({
        {c \in {"list", "hashed", "locked"} :
            \/ c = "list" /\ s.reqs[r].wb_list
            \/ c = "hashed" /\ s.reqs[r].wb_hash
            \/ c = "locked" /\ s.reqs[r].busy}
        : s \in {s0}})

nfs_page_free(s0, r) ==
    Once({
        LET s1 == IF s.reqs[r].wb_list THEN nfs_list_remove_request(s, r) ELSE s
            s2 == IF s1.reqs[r].wb_hash
                  THEN [s1 EXCEPT !.writeback = SeqRemove(@, r),
                                  !.npages = @ - 1,
                                  !.reqs[r].wb_hash = FALSE,
                                  !.hist.printk = unlocked_request(s1, r, @,
                                     "unlocked request attempted unhashed")]
                  ELSE s1
        IN  [s2 EXCEPT !.reqs[r] = nfs_page_alloc,
                       !.nr = (@ - 1) % (UINT_MAX + 1), !.wait = {},
                       !.hist.printk = @ \cup released_while(s, r)]
        : s \in {s0}})

nfs_release_request(s0, r) ==
    Once({
        IF (s.reqs[r].wb_count - 1) % (UINT_MAX + 1) # 0
        THEN [s EXCEPT !.reqs[r].wb_count = (@ - 1) % (UINT_MAX + 1)]
        ELSE nfs_page_free([s EXCEPT !.reqs[r].wb_count = 0], r)
        : s \in {s0}})

nfs_inode_add_request(s0, r) ==
    Once({
        IF s.reqs[r].wb_hash THEN s
        ELSE [s EXCEPT !.npages = @ + 1,
                       !.writeback = <<r>> \o @,
                       !.reqs[r].wb_hash = TRUE,
                       !.reqs[r].wb_count = @ + 1,
                       !.hist.printk = unlocked_request(s, r, @,
                                     "unlocked request attempted hashed")]
        : s \in {s0}})

nfs_inode_remove_request(s0, r) ==
    Once({
        IF ~s.reqs[r].wb_hash THEN s
        ELSE nfs_release_request(
                 [s EXCEPT !.writeback = SeqRemove(@, r),
                           !.reqs[r].wb_hash = FALSE,
                           !.npages = @ - 1,
                           !.hist.printk = unlocked_request(s, r, @,
                                     "unlocked request attempted unhashed")], r)
        : s \in {s0}})

\* _nfs_find_request: the first hashed request of the page, or NoReq
find_request(s0, page) ==
    Once({
        LET hits == {i \in 1..Len(s.writeback) : page_index(s, s.writeback[i]) = page}
        IN  IF hits = {} THEN NoReq
            ELSE s.writeback[CHOOSE i \in hits : \A j \in hits : i <= j]
        : s \in {s0}})

\* nfs_mark_request_dirty without its test of list_empty(&req->wb_list)
nfs_mark_request_dirty_again(s0, r) ==
    Once({
        [nfs_list_add_request(s, r, DirtyList) EXCEPT !.ndirty = @ + 1]
        : s \in {s0}})

nfs_mark_request_dirty(s0, r) ==
    Once({
        IF ~s.reqs[r].wb_list
        THEN [nfs_list_add_request(s, r, DirtyList) EXCEPT !.ndirty = @ + 1]
        ELSE s
        : s \in {s0}})

nfs_dirty_request(s0, r) ==
    Once({
        s.reqs[r].wb_list /\ s.reqs[r].wb_list_head = DirtyList
        : s \in {s0}})

\* nfs_mark_request_commit without its ncommit++
nfs_mark_request_commit_uncounted(s0, r) ==
    Once({
        IF ~s.reqs[r].wb_list
        THEN nfs_list_add_request(s, r, CommitList)
        ELSE s
        : s \in {s0}})

nfs_mark_request_commit(s0, r) ==
    Once({
        IF ~s.reqs[r].wb_list
        THEN [nfs_list_add_request(s, r, CommitList) EXCEPT !.ncommit = @ + 1]
        ELSE s
        : s \in {s0}})

\* nfs_lock_request, when it succeeds (the caller tests NFS_WBACK_BUSY)
nfs_lock_request(s0, r) ==
    Once({
        IF NFS_WBACK_BUSY(s, r) THEN s
        ELSE [s EXCEPT !.reqs[r].wb_count = @ + 1, !.reqs[r].busy = TRUE]
        : s \in {s0}})

nfs_unlock_request(s0, r) ==
    Once({
        IF ~NFS_WBACK_BUSY(s, r)
        THEN [s EXCEPT !.hist.printk = @ \cup {"Invalid unlock attempted"}]
        ELSE nfs_release_request([s EXCEPT !.reqs[r].busy = FALSE], r)
        : s \in {s0}})

\* ---------------------------------------------------------- scans, merging
\* idx_start and idx_end of nfs_scan_list and nfs_wait_on_requests; a count
\* of 0 gives ~0, which is above every page index
idx_start(start) == start \div PAGE_CACHE_SIZE
idx_end(start, count) ==
    IF count = 0 THEN NPages + 1
    ELSE idx_start(start) + (count \div PAGE_CACHE_SIZE)

\* One pass of the while loop of nfs_scan_list over the entries todo of src
\* the loop of nfs_scan_list taking the busy requests as well
RECURSIVE scan_list_from_busy(_, _, _, _, _)
scan_list_from_busy(s0, todo, dst, start, count) ==
    Once({
        IF todo = <<>> THEN [s |-> s, pages |-> 0]
        ELSE LET r == Head(todo)
                 pg_idx == page_index(s, r)
                 skip == \/ pg_idx < idx_start(start)
                         \/ pg_idx > idx_end(start, count)
                 s1 == IF skip THEN s
                       ELSE nfs_list_add_request(
                                nfs_list_remove_request(nfs_lock_request(s, r), r), r, dst)
                 rest == scan_list_from_busy(s1, Tail(todo), dst, start, count)
             IN  [s |-> rest.s, pages |-> rest.pages + (IF skip THEN 0 ELSE 1)]
        : s \in {s0}})

RECURSIVE scan_list_from(_, _, _, _, _)
scan_list_from(s0, todo, dst, start, count) ==
    Once({
        IF todo = <<>> THEN [s |-> s, pages |-> 0]
        ELSE LET r == Head(todo)
                 pg_idx == page_index(s, r)
                 skip == \/ pg_idx < idx_start(start)
                         \/ pg_idx > idx_end(start, count)
                         \/ NFS_WBACK_BUSY(s, r)
                 s1 == IF skip THEN s
                       ELSE nfs_list_add_request(
                                nfs_list_remove_request(nfs_lock_request(s, r), r), r, dst)
                 rest == scan_list_from(s1, Tail(todo), dst, start, count)
             IN  [s |-> rest.s, pages |-> rest.pages + (IF skip THEN 0 ELSE 1)]
        : s \in {s0}})

nfs_scan_list(s0, src, dst, start, count) ==
    Once({
        scan_list_from(s, s.lists[src], dst, start, count)
        : s \in {s0}})

\* the loop of nfs_scan_list_timeout without its test of wb_timeout
RECURSIVE scan_list_timeout_from_all(_, _, _, _)
scan_list_timeout_from_all(s0, todo, dst, due) ==
    Once({
        IF todo = <<>> THEN [s |-> s, pages |-> 0]
        ELSE LET r == Head(todo)
                 skip == NFS_WBACK_BUSY(s, r)
                 s1 == IF skip THEN s
                       ELSE nfs_list_add_request(
                                nfs_list_remove_request(nfs_lock_request(s, r), r), r, dst)
                 rest == scan_list_timeout_from_all(s1, Tail(todo), dst, due)
             IN  [s |-> rest.s, pages |-> rest.pages + (IF skip THEN 0 ELSE 1)]
        : s \in {s0}})

\* One pass of the while loop of nfs_scan_list_timeout.  due: the requests
\* whose wb_timeout jiffies has reached (time_after(wb_timeout, jiffies) is
\* false); wb_timeout and jiffies are not kept in the state.
RECURSIVE scan_list_timeout_from(_, _, _, _)
scan_list_timeout_from(s0, todo, dst, due) ==
    Once({
        IF todo = <<>> THEN [s |-> s, pages |-> 0]
        ELSE LET r == Head(todo)
                 skip == r \notin due \/ NFS_WBACK_BUSY(s, r)
                 s1 == IF skip THEN s
                       ELSE nfs_list_add_request(
                                nfs_list_remove_request(nfs_lock_request(s, r), r), r, dst)
                 rest == scan_list_timeout_from(s1, Tail(todo), dst, due)
             IN  [s |-> rest.s, pages |-> rest.pages + (IF skip THEN 0 ELSE 1)]
        : s \in {s0}})

nfs_scan_list_timeout(s0, head, dst, due) ==
    Once({
        scan_list_timeout_from(s, s.lists[head], dst, due)
        : s \in {s0}})

nfs_scan_dirty(s0, dst, start, count) ==
    Once({
        LET sc == nfs_scan_list(s, DirtyList, dst, start, count)
        IN  [s |-> [sc.s EXCEPT !.ndirty = @ - sc.pages], pages |-> sc.pages]
        : s \in {s0}})

nfs_scan_dirty_timeout(s0, dst, due) ==
    Once({
        LET sc == nfs_scan_list_timeout(s, DirtyList, dst, due)
        IN  [s |-> [sc.s EXCEPT !.ndirty = @ - sc.pages], pages |-> sc.pages]
        : s \in {s0}})

nfs_scan_commit(s0, dst, start, count) ==
    Once({
        LET sc == nfs_scan_list(s, CommitList, dst, start, count)
        IN  [s |-> [sc.s EXCEPT !.ncommit = @ - sc.pages], pages |-> sc.pages]
        : s \in {s0}})

nfs_scan_commit_timeout(s0, dst, due) ==
    Once({
        LET sc == nfs_scan_list_timeout(s, CommitList, dst, due)
        IN  [s |-> [sc.s EXCEPT !.ncommit = @ - sc.pages], pages |-> sc.pages]
        : s \in {s0}})

\* the loop of coalesce_requests taking a request that does not start at
\* offset 0 into the batch and ending the batch after it
RECURSIVE coalesce_from_late(_, _, _, _, _, _)
coalesce_from_late(s0, src, dst, maxpages, prev, pages) ==
    Once({
        IF s.lists[src] = <<>> THEN [s |-> s, pages |-> pages]
        ELSE LET r == Head(s.lists[src])
             IN  IF prev # NoReq /\ page_index(s, r) # page_index(s, prev) + 1
                 THEN [s |-> s, pages |-> pages]
                 ELSE LET s1 == nfs_list_add_request(nfs_list_remove_request(s, r), r, dst)
                      IN  IF \/ s.reqs[r].wb_offset # 0
                             \/ s.reqs[r].wb_offset + s.reqs[r].wb_bytes # PAGE_CACHE_SIZE
                             \/ pages + 1 >= maxpages
                          THEN [s |-> s1, pages |-> pages + 1]
                          ELSE coalesce_from_late(s1, src, dst, maxpages, r, pages + 1)
        : s \in {s0}})

\* The while loop of coalesce_requests; prev is the request taken last
\* (NoReq at the start), pages the count so far.  All requests belong to the
\* one file of the model, so the wb_file test never breaks the loop.
RECURSIVE coalesce_from(_, _, _, _, _, _)
coalesce_from(s0, src, dst, maxpages, prev, pages) ==
    Once({
        IF s.lists[src] = <<>> THEN [s |-> s, pages |-> pages]
        ELSE LET r == Head(s.lists[src])
             IN  IF /\ prev # NoReq
                    /\ \/ page_index(s, r) # page_index(s, prev) + 1
                       \/ s.reqs[r].wb_offset # 0
                 THEN [s |-> s, pages |-> pages]
                 ELSE LET s1 == nfs_list_add_request(nfs_list_remove_request(s, r), r, dst)
                      IN  IF \/ s.reqs[r].wb_offset + s.reqs[r].wb_bytes # PAGE_CACHE_SIZE
                             \/ pages + 1 >= maxpages
                          THEN [s |-> s1, pages |-> pages + 1]
                          ELSE coalesce_from(s1, src, dst, maxpages, r, pages + 1)
        : s \in {s0}})

\* coalesce_requests without the test of pages against maxpages
coalesce_requests_unbounded(s0, src, dst, maxpages) ==
    Once({
        coalesce_from(s, src, dst, maxpages + NPages, NoReq, 0)
        : s \in {s0}})

coalesce_requests(s0, src, dst, maxpages) ==
    Once({
        coalesce_from(s, src, dst, maxpages, NoReq, 0)
        : s \in {s0}})

\* nfs_write_rpcsetup / nfs_commit_rpcsetup: every request of head goes to
\* data->pages
RECURSIVE rpcsetup(_, _, _)
rpcsetup(s0, head, k) ==
    Once({
        IF s.lists[head] = <<>> THEN s
        ELSE LET r == Head(s.lists[head])
             IN  rpcsetup(nfs_list_add_request(nfs_list_remove_request(s, r), r, DataList(k)),
                          head, k)
        : s \in {s0}})

\* out_bad loops that leave out nfs_unlock_request
RECURSIVE redirty_list_locked(_, _)
redirty_list_locked(s0, head) ==
    Once({
        IF s.lists[head] = <<>> THEN s
        ELSE LET r == Head(s.lists[head])
             IN  redirty_list_locked(
                     nfs_mark_request_dirty(nfs_list_remove_request(s, r), r), head)
        : s \in {s0}})

\* the out_bad loops of nfs_flush_one and nfs_flush_list
RECURSIVE redirty_list(_, _)
redirty_list(s0, head) ==
    Once({
        IF s.lists[head] = <<>> THEN s
        ELSE LET r == Head(s.lists[head])
             IN  redirty_list(
                     nfs_unlock_request(
                         nfs_mark_request_dirty(nfs_list_remove_request(s, r), r), r),
                     head)
        : s \in {s0}})

\* the out_bad loop of nfs_commit_list
RECURSIVE recommit_list(_, _)
recommit_list(s0, head) ==
    Once({
        IF s.lists[head] = <<>> THEN s
        ELSE LET r == Head(s.lists[head])
             IN  recommit_list(
                     nfs_unlock_request(
                         nfs_mark_request_commit(nfs_list_remove_request(s, r), r), r),
                     head)
        : s \in {s0}})


\* ------------------------------------------------------------------ state
NoPage == 0 - 1

\* a thread's locals.  slept: how the last sleep on request_wait ended
\* ("woken" by wake_up, "expired" after 1*HZ), "" before the first sleep;
\* seen is history: the requests of the range that, when nfs_sync_file was
\* called, had been sent back to the dirty list by a COMMIT reply; nr is the
\* value of nfs_nr_requests that nfs_create_request has read and not yet
\* written back plus one; waited is history: "" until this call of
\* nfs_update_request has slept on a busy request, and then whether the
\* request was still hashed ("kept") or not ("gone") when the sleep ended;
\* cnt is the value of wb_count that nfs_wait_on_request has read and not
\* yet written back, one higher; marked is history: the function that a run
\* of SpecMark has last applied to request req ("dirty" or "commit"), with
\* start set to 1 if the request was on a list when it was called
Loc0 ==
    [page |-> NoPage, offset |-> 0, bytes |-> 0, osync |-> FALSE,
     req |-> NoReq, new |-> NoReq, ret |-> "", fret |-> "idle",
     wreq |-> NoReq, start |-> 0, count |-> 0, how |-> {}, error |-> 0,
     rpc |-> 0, status |-> 0, slept |-> "", seen |-> {}, nr |-> 0,
     waited |-> "", cnt |-> 0, marked |-> ""]

\* an RPC task: reply is <<>> until its completion handler has begun and
\* then the reply the handler is working on
NoRpc == [kind |-> "none", stable |-> 0, sync |-> FALSE, reply |-> <<>>]

\* the state after nfs_init_nfspagecache on a mount of NFS version v with a
\* write size of w bytes, with o requests of other inodes outstanding and the
\* operations b ahead
InitServer(b, o, v, w) ==
    /\ reqs = [r \in Reqs |-> nfs_page_alloc]
    /\ writeback = <<>>
    /\ lists = [l \in ListIds |-> <<>>]
    /\ npages = 0
    /\ ndirty = 0
    /\ ncommit = 0
    /\ nfs_nr_requests = o
    /\ f_error = 0
    /\ request_wait = {}
    /\ hist = NoHist
    /\ rpcs = [k \in Rpcs |-> NoRpc]
    /\ pc = [t \in Threads |-> "idle"]
    /\ loc = [t \in Threads |-> Loc0]
    /\ sigpending = {}
    /\ others = o
    /\ version = v
    /\ wsize = w
    /\ budget = b

\* the same with a write size of wpages pages
InitMount(b, o, v) == InitServer(b, o, v, WPages * PAGE_CACHE_SIZE)

\* the same on an NFSv3 mount
InitWith(b, o) == InitMount(b, o, 3)

Init == InitWith([writers |-> NWriters, writes |-> MaxWrites, syncs |-> 0,
                  sweeps |-> MaxSweeps, fails |-> MaxFails, releases |-> 0], 0)

\* The page lock: the caller of nfs_updatepage holds the lock of the page it
\* writes, so no two threads are inside nfs_updatepage for one page.
PageLocked(page) == \E u \in Writers : loc[u].page = page

FreeReqs(s) == {r \in Reqs : ~s.reqs[r].alive}
FreeRpcs == {k \in Rpcs : rpcs[k].kind = "none"}
Lowest(S) == CHOOSE x \in S : \A y \in S : x <= y

\* a call of nfs_sync_file(inode, file, start, count, how) that returns to
\* ret; lc: the caller's locals
CallSync(t, lc, start, count, how, ret) ==
    /\ pc' = [pc EXCEPT ![t] = "sy_top"]
    /\ loc' = [loc EXCEPT ![t] =
                  [lc EXCEPT !.start = start, !.count = count,
                             !.how = how, !.ret = ret, !.error = 0,
                             !.seen = {r \in Reqs :
                                          /\ reqs[r].wb_hash
                                          /\ reqs[r].redirtied
                                          /\ reqs[r].wb_page >= idx_start(start)
                                          /\ reqs[r].wb_page <= idx_end(start, count)}]]

\* nfs_wb_file and nfs_wb_page of nfs_fs.h
nfs_wb_file(t, lc, ret) == CallSync(t, lc, 0, 0, {FLUSH_WAIT}, ret)
nfs_wb_page(t, lc, ret) ==
    CallSync(t, lc, lc.page * PAGE_CACHE_SIZE, PAGE_CACHE_SIZE,
             {FLUSH_WAIT, FLUSH_STABLE}, ret)

\* nfs_updatepage returns status to its caller, which still holds the page
\* and knows what it has asked to be written
ReturnStatus(t, status) ==
    /\ pc' = [pc EXCEPT ![t] = "upd_ret"]
    /\ loc' = [loc EXCEPT ![t] = [Loc0 EXCEPT !.page = loc[t].page,
                                              !.offset = loc[t].offset,
                                              !.bytes = loc[t].bytes,
                                              !.status = status]]

\* ------------------------------------------------------ nfs_create_request
NFS_MOUNT_INTR == TRUE

\* "If we haven't reached the hard limit yet, try to allocate the request
\* struct", else sleep on request_wait.  nfs_page_alloc answers NULL when
\* the slab has no object left.
create_request_alloc(t, lc) ==
    IF nfs_nr_requests < MAX_REQUEST_HARD /\ FreeReqs(Heap) # {}
    THEN LET r == Lowest(FreeReqs(Heap))
         IN  /\ reqs' = [reqs EXCEPT ![r].alive = TRUE]
             /\ pc' = [pc EXCEPT ![t] = "cr_init"]
             /\ loc' = [loc EXCEPT ![t] = [lc EXCEPT !.new = r, !.error = 0]]
             /\ request_wait' = request_wait
    ELSE /\ pc' = [pc EXCEPT ![t] = "cr_sleep"]
         /\ loc' = [loc EXCEPT ![t] = [lc EXCEPT !.error = 0]]
         /\ reqs' = reqs
         /\ request_wait' = request_wait \cup {t}

\* the top of the do loop: over the soft limit the file is flushed first
create_request_top(t, lc) ==
    /\ IF nfs_nr_requests >= MAX_REQUEST_SOFT
       THEN nfs_wb_file(t, lc, "cr_check") /\ UNCHANGED <<reqs, request_wait>>
       ELSE create_request_alloc(t, lc)
    /\ UNCHANGED <<writeback, lists, npages, ndirty, ncommit, nfs_nr_requests,
                   f_error, hist>>

\* nfs_wb_file has returned (its result is not looked at)
create_request_check(t) ==
    /\ pc[t] = "cr_check"
    /\ create_request_alloc(t, loc[t])
    /\ UNCHANGED <<writeback, lists, npages, ndirty, ncommit, nfs_nr_requests,
                   f_error, hist, rpcs, sigpending, others, version, wsize, budget>>

\* nfs_create_request giving up when the sleep has run its full 1*HZ
create_request_woken_giveup(t) ==
    /\ pc[t] = "cr_sleep"
    /\ request_wait' = request_wait \ {t}
    /\ IF t \in request_wait \/ (NFS_MOUNT_INTR /\ t \in sigpending)
       THEN /\ ReturnStatus(t, 0 - ENOMEM)
            /\ sigpending' = sigpending \ {t}
       ELSE /\ pc' = [pc EXCEPT ![t] = "cr_top"]
            /\ loc' = [loc EXCEPT ![t].slept = "woken"]
            /\ sigpending' = sigpending
    /\ UNCHANGED <<reqs, writeback, lists, npages, ndirty, ncommit,
                   nfs_nr_requests, f_error, hist, rpcs, others, version, wsize, budget>>

\* The sleep on request_wait ends, by wake_up (the thread is no longer on
\* the queue) or after 1*HZ: the loop goes round again unless the mount is
\* interruptible and a signal is pending, and then nfs_create_request
\* answers NULL and nfs_update_request -ENOMEM.
create_request_woken(t) ==
    /\ pc[t] = "cr_sleep"
    /\ request_wait' = request_wait \ {t}
    /\ IF NFS_MOUNT_INTR /\ t \in sigpending
       THEN /\ ReturnStatus(t, 0 - ENOMEM)
            /\ sigpending' = sigpending \ {t}
       ELSE /\ pc' = [pc EXCEPT ![t] = "cr_top"]
            /\ loc' = [loc EXCEPT ![t].slept =
                          IF t \in request_wait THEN "expired" ELSE "woken"]
            /\ sigpending' = sigpending
    /\ UNCHANGED <<reqs, writeback, lists, npages, ndirty, ncommit,
                   nfs_nr_requests, f_error, hist, rpcs, others, version, wsize, budget>>

\* the do loop of nfs_create_request goes round
create_request_again(t) ==
    /\ pc[t] = "cr_top"
    /\ create_request_top(t, loc[t])
    /\ UNCHANGED <<rpcs, sigpending, others, version, wsize, budget>>

\* a signal arrives for a thread sleeping in nfs_create_request
Signal(t) ==
    /\ pc[t] = "cr_sleep"
    /\ t \notin sigpending
    /\ budget.fails > 0
    /\ budget' = [budget EXCEPT !.fails = @ - 1]
    /\ sigpending' = sigpending \cup {t}
    /\ UNCHANGED <<heapvars, rpcs, pc, loc, others, version, wsize>>

\* "Initialize the request struct" and the first half of "register
\* request's existence": nfs_nr_requests++ is done with no lock held, a load
\* and a store that other processors' updates of the count can come between
create_request_init(t) ==
    /\ pc[t] = "cr_init"
    /\ reqs' = [reqs EXCEPT ![loc[t].new] =
                   [nfs_page_alloc EXCEPT !.alive = TRUE,
                                          !.wb_page = loc[t].page,
                                          !.wb_offset = loc[t].offset,
                                          !.wb_bytes = loc[t].bytes,
                                          !.wb_count = 1]]
    /\ loc' = [loc EXCEPT ![t].nr = nfs_nr_requests]
    /\ pc' = [pc EXCEPT ![t] = "cr_count"]
    /\ UNCHANGED <<writeback, lists, npages, ndirty, ncommit, nfs_nr_requests,
                   f_error, request_wait, hist, rpcs, sigpending, others, version,
                   wsize, budget>>

\* the store of nfs_nr_requests++; nfs_create_request returns the request
create_request_count(t) ==
    /\ pc[t] = "cr_count"
    /\ nfs_nr_requests' = (loc[t].nr + 1) % (UINT_MAX + 1)
    /\ loc' = [loc EXCEPT ![t].nr = 0]
    /\ pc' = [pc EXCEPT ![t] = "upd_find"]
    /\ UNCHANGED <<reqs, writeback, lists, npages, ndirty, ncommit, f_error,
                   request_wait, hist, rpcs, sigpending, others, version, wsize, budget>>

\* a request of another inode of the mount is released: the tail of
\* nfs_release_request
release_other ==
    /\ others > 0
    /\ budget.releases > 0
    /\ budget' = [budget EXCEPT !.releases = @ - 1]
    /\ others' = others - 1
    /\ nfs_nr_requests' = (nfs_nr_requests - 1) % (UINT_MAX + 1)
    /\ request_wait' = {}
    /\ UNCHANGED <<reqs, writeback, lists, npages, ndirty, ncommit, f_error,
                   hist, rpcs, pc, loc, sigpending, version, wsize>>

\* ------------------------------------------------------ nfs_update_request
\* the pass of nfs_update_request taking the request of the page whether it
\* is busy or not
update_request_pass_steal(t, lc) ==
    LET s == Heap
        req == find_request(s, lc.page)
        new == lc.new
    IN  IF req # NoReq
        THEN LET s1 == [s EXCEPT !.reqs[req].wb_count = @ + 1]
             IN  /\ SetHeap(IF new # NoReq
                            THEN nfs_release_request(nfs_lock_request(s1, req), new)
                            ELSE nfs_lock_request(s1, req))
                 /\ pc' = [pc EXCEPT ![t] = "upd_locked"]
                 /\ loc' = [loc EXCEPT ![t] = [lc EXCEPT !.req = req, !.new = NoReq]]
        ELSE IF new # NoReq
        THEN /\ SetHeap(nfs_mark_request_dirty(
                            nfs_inode_add_request(nfs_lock_request(s, new), new), new))
             /\ pc' = [pc EXCEPT ![t] = "upd_locked"]
             /\ loc' = [loc EXCEPT ![t] = [lc EXCEPT !.req = new, !.new = NoReq]]
        ELSE create_request_top(t, lc)

\* the pass of nfs_update_request hashing the request it has created whether
\* the page has got a request meanwhile or not
update_request_pass_late(t, lc) ==
    LET s == Heap
        req == find_request(s, lc.page)
        new == lc.new
    IN  IF new # NoReq
        THEN /\ SetHeap(nfs_mark_request_dirty(
                            nfs_inode_add_request(nfs_lock_request(s, new), new), new))
             /\ pc' = [pc EXCEPT ![t] = "upd_locked"]
             /\ loc' = [loc EXCEPT ![t] = [lc EXCEPT !.req = new, !.new = NoReq]]
        ELSE IF req # NoReq
        THEN LET s1 == [s EXCEPT !.reqs[req].wb_count = @ + 1]
             IN  IF NFS_WBACK_BUSY(s1, req)
                 THEN /\ SetHeap([s1 EXCEPT !.reqs[req].wb_count = @ + 1])
                      /\ pc' = [pc EXCEPT ![t] = "upd_wait"]
                      /\ loc' = [loc EXCEPT ![t] = [lc EXCEPT !.req = req]]
                 ELSE /\ SetHeap(nfs_lock_request(s1, req))
                      /\ pc' = [pc EXCEPT ![t] = "upd_locked"]
                      /\ loc' = [loc EXCEPT ![t] = [lc EXCEPT !.req = req, !.new = NoReq]]
        ELSE create_request_top(t, lc)

\* One pass of the for (;;) loop, under nfs_wreq_lock: an existing request
\* of the page is locked, or waited for if busy; else the new request is
\* hashed; else nfs_create_request is entered.
update_request_pass(t, lc) ==
    LET s == Heap
        req == find_request(s, lc.page)
        new == lc.new
    IN  IF req # NoReq
        THEN LET s1 == [s EXCEPT !.reqs[req].wb_count = @ + 1]
             IN  IF NFS_WBACK_BUSY(s1, req)
                 THEN \* nfs_wait_on_request takes its own reference and sleeps
                      /\ SetHeap([s1 EXCEPT !.reqs[req].wb_count = @ + 1])
                      /\ pc' = [pc EXCEPT ![t] = "upd_wait"]
                      /\ loc' = [loc EXCEPT ![t] = [lc EXCEPT !.req = req]]
                 ELSE /\ SetHeap(IF new # NoReq
                                 THEN nfs_release_request(nfs_lock_request(s1, req), new)
                                 ELSE nfs_lock_request(s1, req))
                      /\ pc' = [pc EXCEPT ![t] = "upd_locked"]
                      /\ loc' = [loc EXCEPT ![t] = [lc EXCEPT !.req = req, !.new = NoReq]]
        ELSE IF new # NoReq
        THEN /\ SetHeap(nfs_mark_request_dirty(
                            nfs_inode_add_request(nfs_lock_request(s, new), new), new))
             /\ pc' = [pc EXCEPT ![t] = "upd_locked"]
             /\ loc' = [loc EXCEPT ![t] = [lc EXCEPT !.req = new, !.new = NoReq]]
        ELSE create_request_top(t, lc)

\* the test of nfs_updatepage that never takes the synchronous way
wsize_never_below_page == FALSE

\* the test of nfs_updatepage for a transport that cannot take a page in one
\* WRITE call
wsize_below_page == wsize < PAGE_CACHE_SIZE

\* nfs_writepage_sync(dentry, inode, page, offset, count): nfs_proc_write is
\* called for wsize bytes at a time until count bytes are written or a call
\* fails.  ok: the calls that succeed before one fails.  The return value is
\* written ? written : result.
nfs_writepage_sync(t, lc, ok) ==
    LET calls == (lc.bytes + wsize - 1) \div wsize
        written == Min(ok * wsize, lc.bytes)
        result == IF ok < calls THEN 0 - EIO ELSE Min(wsize, lc.bytes)
    IN  /\ ok \in 0..calls
        /\ pc' = [pc EXCEPT ![t] = "upd_ret"]
        /\ loc' = [loc EXCEPT ![t] =
                      [lc EXCEPT !.status = IF written # 0 THEN written ELSE result]]
        /\ UNCHANGED heapvars

\* nfs_updatepage(file, page, offset, count), file opened with O_SYNC or not,
\* up to the first point where it can sleep
updatepage_entered(t, page, offset, count, osync) ==
    /\ pc[t] = "idle"
    /\ t <= budget.writers
    /\ budget.writes > 0
    /\ osync => budget.syncs > 0
    /\ budget' = [budget EXCEPT !.writes = @ - 1,
                                !.syncs = IF osync THEN @ - 1 ELSE @]
    /\ LET lc == [Loc0 EXCEPT !.page = page, !.offset = offset,
                              !.bytes = count, !.osync = osync]
       IN  IF wsize_below_page
           THEN \E ok \in 0..PAGE_CACHE_SIZE : nfs_writepage_sync(t, lc, ok)
           ELSE update_request_pass(t, lc)
    /\ UNCHANGED <<rpcs, sigpending, others, version, wsize>>

\* nfs_updatepage called as its callers do, with the page locked
nfs_updatepage(t, page, offset, count, osync) ==
    /\ ~PageLocked(page)
    /\ updatepage_entered(t, page, offset, count, osync)

\* nfs_create_request has returned the new request: the loop goes round
update_request_find(t) ==
    /\ pc[t] = "upd_find"
    /\ update_request_pass(t, loc[t])
    /\ UNCHANGED <<rpcs, sigpending, others, version, wsize, budget>>

\* nfs_update_request going on with the request it has waited for, without
\* looking for it again
update_request_woken_proceed(t) ==
    /\ pc[t] = "upd_wait"
    /\ ~NFS_WBACK_BUSY(Heap, loc[t].req)
    /\ SetHeap(nfs_lock_request(nfs_release_request(Heap, loc[t].req), loc[t].req))
    /\ pc' = [pc EXCEPT ![t] = "upd_locked"]
    /\ loc' = [loc EXCEPT ![t].waited =
                  IF reqs[loc[t].req].wb_hash THEN "kept" ELSE "gone"]
    /\ UNCHANGED <<rpcs, sigpending, others, version, wsize, budget>>

\* nfs_wait_on_request returns once PG_BUSY is clear; both references go
update_request_woken(t) ==
    /\ pc[t] = "upd_wait"
    /\ ~NFS_WBACK_BUSY(Heap, loc[t].req)
    /\ SetHeap(nfs_release_request(nfs_release_request(Heap, loc[t].req), loc[t].req))
    /\ pc' = [pc EXCEPT ![t] = "upd_find"]
    /\ loc' = [loc EXCEPT ![t].req = NoReq,
                          ![t].waited =
                              IF reqs[loc[t].req].wb_hash THEN "kept" ELSE "gone"]
    /\ UNCHANGED <<rpcs, sigpending, others, version, wsize, budget>>

\* the region of req replaced by the bytes of the write
update_region_replace(rq, offset, end) ==
    [rq EXCEPT !.wb_offset = offset, !.wb_bytes = end - offset]

\* the region of req with the bytes of the write counted on top of its own
update_region_sum(rq, offset, end) ==
    [rq EXCEPT !.wb_offset = IF offset < @ THEN offset ELSE @,
               !.wb_bytes = @ + (end - offset)]

\* the region of req after a write of [offset, end) has been merged into it
update_region(rq, offset, end) ==
    LET rqend == rq.wb_offset + rq.wb_bytes
        r1 == IF offset < rq.wb_offset
              THEN [rq EXCEPT !.wb_offset = offset, !.wb_bytes = rqend - offset]
              ELSE rq
    IN  IF end > rqend THEN [r1 EXCEPT !.wb_bytes = end - r1.wb_offset] ELSE r1

\* the test of nfs_update_request without !nfs_dirty_request(req)
update_conflict_ranges(s0, req, offset, end) ==
    Once({
        \/ offset > s.reqs[req].wb_offset + s.reqs[req].wb_bytes
        \/ end < s.reqs[req].wb_offset
        : s \in {s0}})

\* whether nfs_update_request answers -EBUSY for its locked request
update_conflict(s0, req, offset, end) ==
    Once({
        \/ ~nfs_dirty_request(s, req)
        \/ offset > s.reqs[req].wb_offset + s.reqs[req].wb_bytes
        \/ end < s.reqs[req].wb_offset
        : s \in {s0}})

\* ------------------------------------------------- nfs_updatepage, the rest
\* nfs_release_request(req) and the return of nfs_updatepage
updatepage_done(t, s, status) ==
    /\ SetHeap(nfs_release_request(s, loc[t].req))
    /\ ReturnStatus(t, status)

\* a call of nfs_flush_file(inode, file, start, count, how) returning to fret
CallFlush(t, start, count, how, fret) ==
    /\ pc' = [pc EXCEPT ![t] = "ff_scan"]
    /\ loc' = [loc EXCEPT ![t].start = start, ![t].count = count,
                          ![t].how = how, ![t].fret = fret, ![t].error = 0]

\* the dirty count at which nfs_strategy flushes the file, without the
\* version test
strategy_pages_v3 == WPages

\* the dirty count at which nfs_strategy flushes the file: wpages, and
\* NFS_STRATEGY_PAGES times that on an NFSv2 mount
strategy_pages ==
    IF version = 2 THEN NFS_STRATEGY_PAGES * WPages ELSE WPages

\* the second half of nfs_strategy, on the shared state s
strategy_pressure(t, s) ==
    IF s.nr > MAX_REQUEST_SOFT
    THEN /\ nfs_wb_file(t, loc[t], "upd_release")
         /\ SetHeap(s)
    ELSE updatepage_done(t, s, 0)

\* nfs_updatepage once nfs_update_request has answered with a request, on
\* the shared state s
updatepage_post(t, s) ==
    LET rq == s.reqs[loc[t].req]
    IN  IF loc[t].osync
        THEN /\ CallSync(t, loc[t], loc[t].page * PAGE_CACHE_SIZE + loc[t].offset,
                         loc[t].bytes, {FLUSH_SYNC, FLUSH_STABLE}, "upd_syncret")
             /\ SetHeap(s)
        ELSE IF rq.wb_offset = 0 /\ rq.wb_bytes = PAGE_CACHE_SIZE
        THEN \* nfs_strategy
             IF s.ndirty >= strategy_pages
             THEN /\ CallFlush(t, 0, 0, {}, "upd_strat")
                  /\ SetHeap(s)
             ELSE strategy_pressure(t, s)
        ELSE updatepage_done(t, s, 0)

\* nfs_update_request from "We have a request for our page" on, and
\* nfs_updatepage after it
\* nfs_update_request answering -EBUSY without nfs_release_request
update_request_locked_held(t) ==
    /\ pc[t] = "upd_locked"
    /\ LET s == Heap
           req == loc[t].req
           offset == loc[t].offset
           end == loc[t].offset + loc[t].bytes
       IN  IF update_conflict(s, req, offset, end)
           THEN /\ SetHeap(nfs_unlock_request(s, req))
                /\ nfs_wb_page(t, [loc[t] EXCEPT !.req = NoReq], "upd_wbret")
           ELSE updatepage_post(t, nfs_unlock_request(
                    [s EXCEPT !.reqs[req] = update_region(@, offset, end)], req))
    /\ UNCHANGED <<rpcs, sigpending, others, version, wsize, budget>>

update_request_locked(t) ==
    /\ pc[t] = "upd_locked"
    /\ LET s == Heap
           req == loc[t].req
           offset == loc[t].offset
           end == loc[t].offset + loc[t].bytes
       IN  IF update_conflict(s, req, offset, end)
           THEN /\ SetHeap(nfs_release_request(nfs_unlock_request(s, req), req))
                /\ nfs_wb_page(t, [loc[t] EXCEPT !.req = NoReq], "upd_wbret")
           ELSE updatepage_post(t, nfs_unlock_request(
                    [s EXCEPT !.reqs[req] = update_region(@, offset, end)], req))
    /\ UNCHANGED <<rpcs, sigpending, others, version, wsize, budget>>

\* nfs_updatepage after nfs_wb_page: give up on an error, else try again
updatepage_flushed(t) ==
    /\ pc[t] = "upd_wbret"
    /\ IF loc[t].error < 0
       THEN /\ ReturnStatus(t, loc[t].error)
            /\ UNCHANGED heapvars
       ELSE update_request_pass(t, [loc[t] EXCEPT !.error = 0])
    /\ UNCHANGED <<rpcs, sigpending, others, version, wsize, budget>>

strategy_flushed(t) ==
    /\ pc[t] = "upd_strat"
    /\ strategy_pressure(t, Heap)
    /\ UNCHANGED <<rpcs, sigpending, others, version, wsize, budget>>

updatepage_release(t) ==
    /\ pc[t] = "upd_release"
    /\ updatepage_done(t, Heap, 0)
    /\ UNCHANGED <<rpcs, sigpending, others, version, wsize, budget>>

\* the status of a synchronous write: nfs_sync_file's error, else f_error
sync_status(error, ferr) ==
    IF error < 0 THEN error ELSE IF ferr < 0 THEN ferr ELSE 0

\* the synchronous branch after nfs_sync_file: f_error is read and cleared
updatepage_synced(t) ==
    /\ pc[t] = "upd_syncret"
    /\ updatepage_done(t, [Heap EXCEPT !.f_error = 0, !.hist.first = 0,
                                        !.hist.last = 0, !.hist.call = ""],
                       sync_status(loc[t].error, f_error))
    /\ UNCHANGED <<rpcs, sigpending, others, version, wsize, budget>>

\* the caller of nfs_updatepage unlocks the page
updatepage_return(t) ==
    /\ pc[t] = "upd_ret"
    /\ pc' = [pc EXCEPT ![t] = "idle"]
    /\ loc' = [loc EXCEPT ![t] = Loc0]
    /\ UNCHANGED <<heapvars, rpcs, sigpending, others, version, wsize, budget>>

\* a do loop of nfs_sync_file that goes round again while (error >= 0)
Return_while_nonneg(t, result) ==
    LET fret == loc[t].fret
    IN  IF fret = "idle"
        THEN /\ pc' = [pc EXCEPT ![t] = "idle"]
             /\ loc' = [loc EXCEPT ![t] = Loc0]
        ELSE IF fret = "sy_flushed" /\ result = 0
        THEN /\ pc' = [pc EXCEPT ![t] = "cf_scan"]
             /\ loc' = [loc EXCEPT ![t].fret = "sy_committed", ![t].error = 0,
                                   ![t].rpc = 0]
        ELSE IF fret \in {"sy_flushed", "sy_committed"} /\ result >= 0
        THEN /\ pc' = [pc EXCEPT ![t] = "sy_top"]
             /\ loc' = [loc EXCEPT ![t].fret = "idle", ![t].error = 0, ![t].rpc = 0]
        ELSE IF fret \in {"sy_flushed", "sy_committed"}
        THEN /\ pc' = [pc EXCEPT ![t] = loc[t].ret]
             /\ loc' = [loc EXCEPT ![t].fret = "idle", ![t].ret = "",
                                   ![t].error = result, ![t].rpc = 0,
                                   ![t].start = 0, ![t].count = 0, ![t].how = {},
                                   ![t].seen = {}]
        ELSE /\ pc' = [pc EXCEPT ![t] = fret]
             /\ loc' = [loc EXCEPT ![t].fret = "idle", ![t].error = result, ![t].rpc = 0,
                                   ![t].start = 0, ![t].count = 0, ![t].how = {}]

\* ------------------------------------------- nfs_flush_file, nfs_commit_file
\* Where a thread goes on when nfs_flush_file, nfs_commit_file or one of the
\* timeout scans returns result: back into the do loop of nfs_sync_file, out
\* of nfs_sync_file, or to the caller of the flush.
Return(t, result) ==
    LET fret == loc[t].fret
    IN  IF fret = "idle"
        THEN /\ pc' = [pc EXCEPT ![t] = "idle"]
             /\ loc' = [loc EXCEPT ![t] = Loc0]
        ELSE IF fret = "sy_flushed" /\ result = 0
        THEN /\ pc' = [pc EXCEPT ![t] = "cf_scan"]
             /\ loc' = [loc EXCEPT ![t].fret = "sy_committed", ![t].error = 0,
                                   ![t].rpc = 0]
        ELSE IF fret \in {"sy_flushed", "sy_committed"} /\ result > 0
        THEN /\ pc' = [pc EXCEPT ![t] = "sy_top"]
             /\ loc' = [loc EXCEPT ![t].fret = "idle", ![t].error = 0, ![t].rpc = 0]
        ELSE IF fret \in {"sy_flushed", "sy_committed"}
        THEN /\ pc' = [pc EXCEPT ![t] = loc[t].ret]
             /\ loc' = [loc EXCEPT ![t].fret = "idle", ![t].ret = "",
                                   ![t].error = result, ![t].rpc = 0,
                                   ![t].start = 0, ![t].count = 0, ![t].how = {},
                                   ![t].seen = {}]
        ELSE /\ pc' = [pc EXCEPT ![t] = fret]
             /\ loc' = [loc EXCEPT ![t].fret = "idle", ![t].error = result, ![t].rpc = 0,
                                   ![t].start = 0, ![t].count = 0, ![t].how = {}]

\* args.stable of a WRITE call
write_stable(how) ==
    IF FLUSH_STABLE \in how
    THEN (IF ncommit = 0 THEN NFS_FILE_SYNC ELSE NFS_DATA_SYNC)
    ELSE NFS_UNSTABLE

\* nfs_flush_file: nfs_scan_dirty, and nfs_flush_list if it took anything
flush_file_scan(t) ==
    /\ pc[t] = "ff_scan"
    /\ LET sc == nfs_scan_dirty(Heap, HeadList(t), loc[t].start, loc[t].count)
       IN  IF sc.pages = 0
           THEN /\ Return(t, 0)
                /\ UNCHANGED heapvars
           ELSE /\ SetHeap(sc.s)
                /\ pc' = [pc EXCEPT ![t] = "fl_loop"]
                /\ loc' = [loc EXCEPT ![t].error = sc.pages]
    /\ UNCHANGED <<rpcs, sigpending, others, version, wsize, budget>>

\* nfs_flush_timeout(inode, 0), called by the flush daemon
nfs_flush_timeout(t, due) ==
    /\ t = Flushd
    /\ pc[t] = "idle"
    /\ budget.sweeps > 0
    /\ due \subseteq Range(lists[DirtyList])
    /\ LET sc == nfs_scan_dirty_timeout(Heap, HeadList(t), due)
       IN  /\ sc.pages > 0
           /\ SetHeap(sc.s)
           /\ pc' = [pc EXCEPT ![t] = "fl_loop"]
           /\ loc' = [loc EXCEPT ![t] = [Loc0 EXCEPT !.error = sc.pages]]
    /\ budget' = [budget EXCEPT !.sweeps = @ - 1]
    /\ UNCHANGED <<rpcs, sigpending, others, version, wsize>>

\* One pass of the while loop of nfs_flush_list: coalesce_requests, then
\* nfs_flush_one.  fail: nfs_writedata_alloc answers NULL.
flush_list_step(t, fail) ==
    /\ pc[t] = "fl_loop"
    /\ lists[HeadList(t)] # <<>>
    /\ LET co == coalesce_requests(Heap, HeadList(t), OneList(t), WPages)
       IN  IF fail
           THEN /\ budget.fails > 0
                /\ budget' = [budget EXCEPT !.fails = @ - 1]
                /\ SetHeap(redirty_list(redirty_list(co.s, OneList(t)), HeadList(t)))
                /\ Return(t, 0 - ENOMEM)
                /\ rpcs' = rpcs
           ELSE LET k == Lowest(FreeRpcs)
                    s1 == rpcsetup(co.s, OneList(t), k)
                    sync == FLUSH_SYNC \in loc[t].how
                IN  /\ budget' = budget
                    /\ SetHeap(s1)
                    /\ rpcs' = [rpcs EXCEPT ![k] =
                                   [kind |-> "write", stable |-> write_stable(loc[t].how),
                                    sync |-> sync, reply |-> <<>>]]
                    /\ IF sync
                       THEN /\ pc' = [pc EXCEPT ![t] = "fl_wait"]
                            /\ loc' = [loc EXCEPT ![t].rpc = k]
                       ELSE IF s1.lists[HeadList(t)] = <<>>
                       THEN Return(t, loc[t].error)
                       ELSE UNCHANGED <<pc, loc>>
    /\ UNCHANGED <<sigpending, others, version, wsize>>

\* rpc_execute of a synchronous task returns when the call is done
rpc_execute_done(t) ==
    /\ pc[t] \in {"fl_wait", "cf_wait"}
    /\ rpcs[loc[t].rpc].kind = "done"
    /\ rpcs' = [rpcs EXCEPT ![loc[t].rpc] = NoRpc]
    /\ IF pc[t] = "fl_wait" /\ lists[HeadList(t)] # <<>>
       THEN /\ pc' = [pc EXCEPT ![t] = "fl_loop"]
            /\ loc' = [loc EXCEPT ![t].rpc = 0]
       ELSE Return(t, loc[t].error)
    /\ UNCHANGED <<heapvars, sigpending, others, version, wsize, budget>>

\* nfs_commit_list on the requests of head
commit_list(t, s, pages, fail) ==
    IF fail
    THEN /\ budget.fails > 0
         /\ budget' = [budget EXCEPT !.fails = @ - 1]
         /\ SetHeap(recommit_list(s, HeadList(t)))
         /\ Return(t, 0 - ENOMEM)
         /\ rpcs' = rpcs
    ELSE LET k == Lowest(FreeRpcs)
             sync == FLUSH_SYNC \in loc[t].how
         IN  /\ budget' = budget
             /\ SetHeap(rpcsetup(s, HeadList(t), k))
             /\ rpcs' = [rpcs EXCEPT ![k] =
                            [kind |-> "commit", stable |-> 0, sync |-> sync, reply |-> <<>>]]
             /\ IF sync
                THEN /\ pc' = [pc EXCEPT ![t] = "cf_wait"]
                     /\ loc' = [loc EXCEPT ![t].rpc = k, ![t].error = pages]
                ELSE Return(t, pages)

\* nfs_commit_file: nfs_scan_commit, and nfs_commit_list if it took anything
commit_file_scan(t, fail) ==
    /\ pc[t] = "cf_scan"
    /\ LET sc == nfs_scan_commit(Heap, HeadList(t), loc[t].start, loc[t].count)
       IN  IF sc.pages = 0
           THEN /\ ~fail
                /\ Return(t, 0)
                /\ UNCHANGED <<heapvars, rpcs, budget>>
           ELSE commit_list(t, sc.s, sc.pages, fail)
    /\ UNCHANGED <<sigpending, others, version, wsize>>

\* nfs_commit_timeout(inode, 0), called by the flush daemon
nfs_commit_timeout(t, due, fail) ==
    /\ t = Flushd
    /\ pc[t] = "idle"
    /\ budget.sweeps > 0
    /\ due \subseteq Range(lists[CommitList])
    /\ LET sc == nfs_scan_commit_timeout(Heap, HeadList(t), due)
           sc2 == nfs_scan_commit(sc.s, HeadList(t), 0, 0)
           b == [budget EXCEPT !.sweeps = @ - 1]
       IN  /\ sc.pages > 0
           /\ IF fail
              THEN /\ budget.fails > 0
                   /\ budget' = [b EXCEPT !.fails = @ - 1]
                   /\ SetHeap(recommit_list(sc2.s, HeadList(t)))
                   /\ rpcs' = rpcs
              ELSE /\ budget' = b
                   /\ SetHeap(rpcsetup(sc2.s, HeadList(t), Lowest(FreeRpcs)))
                   /\ rpcs' = [rpcs EXCEPT ![Lowest(FreeRpcs)] =
                                  [kind |-> "commit", stable |-> 0, sync |-> FALSE,
                                   reply |-> <<>>]]
           /\ UNCHANGED <<pc, loc>>
    /\ UNCHANGED <<sigpending, others, version, wsize>>

\* ----------------------------------------------------------- nfs_sync_file
InRange(s0, r, start, count) ==
    Once({
        /\ page_index(s, r) >= idx_start(start)
        /\ page_index(s, r) <= idx_end(start, count)
        : s \in {s0}})

\* nfs_wait_on_requests: the first busy request of the range in the hash
first_busy(s0, start, count) ==
    Once({
        LET hits == {i \in 1..Len(s.writeback) :
                        /\ InRange(s, s.writeback[i], start, count)
                        /\ NFS_WBACK_BUSY(s, s.writeback[i])}
        IN  IF hits = {} THEN NoReq
            ELSE s.writeback[CHOOSE i \in hits : \A j \in hits : i <= j]
        : s \in {s0}})

\* the top of the do loop of nfs_sync_file: with FLUSH_WAIT, sleep on the
\* first busy request of the range; with nothing to wait for, flush
sync_file_top(t) ==
    /\ pc[t] = "sy_top"
    /\ LET r == IF FLUSH_WAIT \in loc[t].how
                THEN first_busy(Heap, loc[t].start, loc[t].count)
                ELSE NoReq
       IN  IF r # NoReq
           THEN /\ reqs' = [reqs EXCEPT ![r].wb_count = @ + 2]
                /\ pc' = [pc EXCEPT ![t] = "sy_waiting"]
                /\ loc' = [loc EXCEPT ![t].wreq = r]
           ELSE /\ pc' = [pc EXCEPT ![t] = "ff_scan"]
                /\ loc' = [loc EXCEPT ![t].fret = "sy_flushed"]
                /\ reqs' = reqs
    /\ UNCHANGED <<writeback, lists, npages, ndirty, ncommit, nfs_nr_requests,
                   f_error, request_wait, hist, rpcs, sigpending, others, version, wsize, budget>>

\* nfs_wait_on_request returns; nfs_wait_on_requests starts over
sync_file_woken(t) ==
    /\ pc[t] = "sy_waiting"
    /\ ~NFS_WBACK_BUSY(Heap, loc[t].wreq)
    /\ SetHeap(nfs_release_request(nfs_release_request(Heap, loc[t].wreq), loc[t].wreq))
    /\ pc' = [pc EXCEPT ![t] = "sy_top"]
    /\ loc' = [loc EXCEPT ![t].wreq = NoReq]
    /\ UNCHANGED <<rpcs, sigpending, others, version, wsize, budget>>

\* nfs_wait_on_requests up to its call of nfs_wait_on_request: under
\* nfs_wreq_lock it takes a reference to the first busy request of the range
\* and drops the lock; with nothing to wait for, nfs_sync_file flushes
wait_on_requests_pass(t) ==
    /\ pc[t] = "sy_top"
    /\ LET r == IF FLUSH_WAIT \in loc[t].how
                THEN first_busy(Heap, loc[t].start, loc[t].count)
                ELSE NoReq
       IN  IF r # NoReq
           THEN /\ reqs' = [reqs EXCEPT ![r].wb_count = @ + 1]
                /\ pc' = [pc EXCEPT ![t] = "sy_busy"]
                /\ loc' = [loc EXCEPT ![t].wreq = r]
           ELSE /\ pc' = [pc EXCEPT ![t] = "ff_scan"]
                /\ loc' = [loc EXCEPT ![t].fret = "sy_flushed"]
                /\ reqs' = reqs
    /\ UNCHANGED <<writeback, lists, npages, ndirty, ncommit, nfs_nr_requests,
                   f_error, request_wait, hist, rpcs, sigpending, others, version, wsize, budget>>

\* nfs_wait_on_request(req), entered with no lock held: it returns at once
\* if the request is no longer busy, and nfs_wait_on_requests releases its
\* reference and starts over; else it begins req->wb_count++, a load and a
\* store that the updates of other processors can come between.
wait_on_request(t) ==
    /\ pc[t] = "sy_busy"
    /\ IF ~NFS_WBACK_BUSY(Heap, loc[t].wreq)
       THEN /\ SetHeap(nfs_release_request(Heap, loc[t].wreq))
            /\ pc' = [pc EXCEPT ![t] = "sy_top"]
            /\ loc' = [loc EXCEPT ![t].wreq = NoReq]
       ELSE /\ pc' = [pc EXCEPT ![t] = "sy_count"]
            /\ loc' = [loc EXCEPT ![t].cnt = reqs[loc[t].wreq].wb_count]
            /\ UNCHANGED heapvars
    /\ UNCHANGED <<rpcs, sigpending, others, version, wsize, budget>>

\* the store of req->wb_count++ in nfs_wait_on_request, which then sleeps
wait_on_request_count(t) ==
    /\ pc[t] = "sy_count"
    /\ reqs' = [reqs EXCEPT ![loc[t].wreq].wb_count = loc[t].cnt + 1]
    /\ pc' = [pc EXCEPT ![t] = "sy_waiting"]
    /\ loc' = [loc EXCEPT ![t].cnt = 0]
    /\ UNCHANGED <<writeback, lists, npages, ndirty, ncommit, nfs_nr_requests,
                   f_error, request_wait, hist, rpcs, sigpending, others, version, wsize, budget>>

\* ------------------------------------------------------------ completions
\* history: status is stored in f_error
record_error(s0, status, call) ==
    Once({
        [s EXCEPT !.hist.first = IF @ = 0 THEN status ELSE @,
                  !.hist.last = status,
                  !.hist.call = call]
        : s \in {s0}})

\* nfs_writeback_done sending the request of a failed call back to the dirty
\* list
writeback_done_one_redirty(s0, r, status, committed, verf) ==
    Once({
        LET s1 == nfs_list_remove_request(s, r)
        IN  IF status < 0
            THEN nfs_unlock_request(
                     nfs_mark_request_dirty([s1 EXCEPT !.f_error = status], r), r)
            ELSE IF committed # NFS_UNSTABLE
            THEN nfs_unlock_request(nfs_inode_remove_request(s1, r), r)
            ELSE nfs_unlock_request(
                     nfs_mark_request_commit(
                         [s1 EXCEPT !.reqs[r].wb_verf = verf], r), r)
        : s \in {s0}})

\* nfs_writeback_done storing tk_status only when f_error holds no error
writeback_done_one_first(s0, r, status, committed, verf) ==
    Once({
        LET s1 == nfs_list_remove_request(s, r)
        IN  IF status < 0
            THEN nfs_unlock_request(
                     nfs_inode_remove_request(
                         [s1 EXCEPT !.f_error = IF @ < 0 THEN @ ELSE status], r), r)
            ELSE IF committed # NFS_UNSTABLE
            THEN nfs_unlock_request(nfs_inode_remove_request(s1, r), r)
            ELSE nfs_unlock_request(
                     nfs_mark_request_commit(
                         [s1 EXCEPT !.reqs[r].wb_verf = verf], r), r)
        : s \in {s0}})

\* nfs_writeback_done taking every reply without error for NFS_UNSTABLE
writeback_done_one_provisional(s0, r, status, committed, verf) ==
    Once({
        LET s1 == nfs_list_remove_request(s, r)
        IN  IF status < 0
            THEN nfs_unlock_request(
                     nfs_inode_remove_request([s1 EXCEPT !.f_error = status], r), r)
            ELSE nfs_unlock_request(
                     nfs_mark_request_commit(
                         [s1 EXCEPT !.reqs[r].wb_verf = verf], r), r)
        : s \in {s0}})

\* nfs_writeback_done without the memcpy of the verifier
writeback_done_one_noverf(s0, r, status, committed, verf) ==
    Once({
        LET s1 == nfs_list_remove_request(s, r)
        IN  IF status < 0
            THEN nfs_unlock_request(
                     nfs_inode_remove_request([s1 EXCEPT !.f_error = status], r), r)
            ELSE IF committed # NFS_UNSTABLE
            THEN nfs_unlock_request(nfs_inode_remove_request(s1, r), r)
            ELSE nfs_unlock_request(nfs_mark_request_commit(s1, r), r)
        : s \in {s0}})

\* nfs_writeback_done for one request of data->pages
writeback_done_one(s0, r, status, committed, verf) ==
    Once({
        LET s1 == nfs_list_remove_request(s, r)
        IN  IF status < 0
            THEN nfs_unlock_request(
                     nfs_inode_remove_request([s1 EXCEPT !.f_error = status], r), r)
            ELSE IF committed # NFS_UNSTABLE
            THEN nfs_unlock_request(nfs_inode_remove_request(s1, r), r)
            ELSE nfs_unlock_request(
                     nfs_mark_request_commit(
                         [s1 EXCEPT !.reqs[r].wb_verf = verf], r), r)
        : s \in {s0}})

RECURSIVE writeback_done_loop(_, _, _, _, _)
writeback_done_loop(s0, k, status, committed, verf) ==
    Once({
        IF s.lists[DataList(k)] = <<>> THEN s
        ELSE writeback_done_loop(
                 writeback_done_one(s, Head(s.lists[DataList(k)]), status, committed, verf),
                 k, status, committed, verf)
        : s \in {s0}})

\* tk_status with a short write let through as it came
write_status_as_replied(status, short) ==
    status

\* tk_status after the check "Server wrote less than requested"
write_status(status, short) ==
    IF short /\ status >= 0 THEN 0 - EIO ELSE status

\* nfs_writeback_done taking the data of a call made with stable set for
\* written at the level that was asked for
writeback_done_as_asked(k, status, short, committed, verf) ==
    /\ rpcs[k].kind = "write"
    /\ status < 0 => ~short
    /\ IF status < 0 \/ short
       THEN budget.fails > 0 /\ budget' = [budget EXCEPT !.fails = @ - 1]
       ELSE budget' = budget
    /\ LET st == write_status(status, short)
           s == IF st < 0 THEN record_error(Heap, st, "write") ELSE Heap
           level == IF rpcs[k].stable # NFS_UNSTABLE THEN rpcs[k].stable ELSE committed
       IN  SetHeap(writeback_done_loop(s, k, st, level, verf))
    /\ rpcs' = [rpcs EXCEPT ![k] = IF rpcs[k].sync THEN [NoRpc EXCEPT !.kind = "done"]
                                   ELSE NoRpc]
    /\ UNCHANGED <<pc, loc, sigpending, others, version, wsize>>

\* The WRITE call of task k is done: the reply has tk_status status, wrote
\* less than asked if short, and carries committed and verf.
nfs_writeback_done(k, status, short, committed, verf) ==
    /\ rpcs[k].kind = "write"
    /\ status < 0 => ~short
    /\ IF status < 0 \/ short
       THEN budget.fails > 0 /\ budget' = [budget EXCEPT !.fails = @ - 1]
       ELSE budget' = budget
    /\ LET st == write_status(status, short)
           s == IF st < 0 THEN record_error(Heap, st, "write") ELSE Heap
       IN  SetHeap(writeback_done_loop(s, k, st, committed, verf))
    /\ rpcs' = [rpcs EXCEPT ![k] = IF rpcs[k].sync THEN [NoRpc EXCEPT !.kind = "done"]
                                   ELSE NoRpc]
    /\ UNCHANGED <<pc, loc, sigpending, others, version, wsize>>

\* nfs_commit_done without the comparison of the verifiers
commit_done_one_any(s0, r, status, verf) ==
    Once({
        LET s1 == nfs_list_remove_request(s, r)
        IN  IF status < 0
            THEN nfs_unlock_request(
                     nfs_inode_remove_request([s1 EXCEPT !.f_error = status], r), r)
            ELSE nfs_unlock_request(
                     nfs_inode_remove_request(
                         [s1 EXCEPT !.hist.converged = @ \/ s1.reqs[r].redirtied], r), r)
        : s \in {s0}})

\* nfs_commit_done storing -EIO in f_error when the verifiers differ
commit_done_one_mismatch_error(s0, r, status, verf) ==
    Once({
        LET s1 == nfs_list_remove_request(s, r)
        IN  IF status < 0
            THEN nfs_unlock_request(
                     nfs_inode_remove_request([s1 EXCEPT !.f_error = status], r), r)
            ELSE IF s1.reqs[r].wb_verf = verf
            THEN nfs_unlock_request(
                     nfs_inode_remove_request(
                         [s1 EXCEPT !.hist.converged = @ \/ s1.reqs[r].redirtied], r), r)
            ELSE nfs_unlock_request(
                     nfs_mark_request_dirty(
                         [s1 EXCEPT !.reqs[r].redirtied = TRUE, !.f_error = 0 - EIO], r), r)
        : s \in {s0}})

\* nfs_commit_done writing the page again after a COMMIT that failed
commit_done_one_failed_redirty(s0, r, status, verf) ==
    Once({
        LET s1 == nfs_list_remove_request(s, r)
        IN  IF status < 0
            THEN nfs_unlock_request(
                     nfs_mark_request_dirty(
                         [s1 EXCEPT !.reqs[r].redirtied = TRUE, !.f_error = status], r), r)
            ELSE IF s1.reqs[r].wb_verf = verf
            THEN nfs_unlock_request(
                     nfs_inode_remove_request(
                         [s1 EXCEPT !.hist.converged = @ \/ s1.reqs[r].redirtied], r), r)
            ELSE nfs_unlock_request(
                     nfs_mark_request_dirty([s1 EXCEPT !.reqs[r].redirtied = TRUE], r), r)
        : s \in {s0}})

\* nfs_commit_done for one request of data->pages
commit_done_one(s0, r, status, verf) ==
    Once({
        LET s1 == nfs_list_remove_request(s, r)
        IN  IF status < 0
            THEN nfs_unlock_request(
                     nfs_inode_remove_request([s1 EXCEPT !.f_error = status], r), r)
            ELSE IF s1.reqs[r].wb_verf = verf
            THEN nfs_unlock_request(
                     nfs_inode_remove_request(
                         [s1 EXCEPT !.hist.converged = @ \/ s1.reqs[r].redirtied], r), r)
            ELSE nfs_unlock_request(
                     nfs_mark_request_dirty([s1 EXCEPT !.reqs[r].redirtied = TRUE], r), r)
        : s \in {s0}})

RECURSIVE commit_done_loop(_, _, _, _)
commit_done_loop(s0, k, status, verf) ==
    Once({
        IF s.lists[DataList(k)] = <<>> THEN s
        ELSE commit_done_loop(
                 commit_done_one(s, Head(s.lists[DataList(k)]), status, verf),
                 k, status, verf)
        : s \in {s0}})

\* The COMMIT call of task k is done, with tk_status status and verifier verf.
nfs_commit_done(k, status, verf) ==
    /\ rpcs[k].kind = "commit"
    /\ IF status < 0
       THEN budget.fails > 0 /\ budget' = [budget EXCEPT !.fails = @ - 1]
       ELSE budget' = budget
    /\ LET s == IF status < 0 THEN record_error(Heap, status, "commit") ELSE Heap
       IN  SetHeap(commit_done_loop(s, k, status, verf))
    /\ rpcs' = [rpcs EXCEPT ![k] = IF rpcs[k].sync THEN [NoRpc EXCEPT !.kind = "done"]
                                   ELSE NoRpc]
    /\ UNCHANGED <<pc, loc, sigpending, others, version, wsize>>

\* The two handlers with the loop over data->pages taken one request at a
\* time: nfs_wreq_lock is taken and released inside each iteration (in
\* nfs_inode_remove_request, nfs_mark_request_commit, nfs_mark_request_dirty
\* and nfs_release_request), so that other threads run between two requests
\* of a batch.  The first step takes the reply, the last one releases the
\* task.
\* (the handlers holding nfs_wreq_lock from the first request of the batch to
\* the last)
writeback_done_whole(k, status, short, committed, verf) ==
    nfs_writeback_done(k, status, short, committed, verf)

writeback_done_step(k, status, short, committed, verf) ==
    /\ rpcs[k].kind = "write"
    /\ lists[DataList(k)] # <<>>
    /\ status < 0 => ~short
    /\ IF rpcs[k].reply # <<>>
       THEN rpcs[k].reply = <<status, short, committed, verf>> /\ budget' = budget
       ELSE IF status < 0 \/ short
       THEN budget.fails > 0 /\ budget' = [budget EXCEPT !.fails = @ - 1]
       ELSE budget' = budget
    /\ LET st == write_status(status, short)
           s == IF st < 0 THEN record_error(Heap, st, "write") ELSE Heap
           s1 == writeback_done_one(s, Head(s.lists[DataList(k)]), st, committed, verf)
       IN  /\ SetHeap(s1)
           /\ rpcs' = [rpcs EXCEPT ![k] =
                          IF s1.lists[DataList(k)] # <<>>
                          THEN [@ EXCEPT !.reply = <<status, short, committed, verf>>]
                          ELSE IF rpcs[k].sync THEN [NoRpc EXCEPT !.kind = "done"]
                          ELSE NoRpc]
    /\ UNCHANGED <<pc, loc, sigpending, others, version, wsize>>

commit_done_step(k, status, verf) ==
    /\ rpcs[k].kind = "commit"
    /\ lists[DataList(k)] # <<>>
    /\ IF rpcs[k].reply # <<>>
       THEN rpcs[k].reply = <<status, verf>> /\ budget' = budget
       ELSE IF status < 0
       THEN budget.fails > 0 /\ budget' = [budget EXCEPT !.fails = @ - 1]
       ELSE budget' = budget
    /\ LET s == IF status < 0 THEN record_error(Heap, status, "commit") ELSE Heap
           s1 == commit_done_one(s, Head(s.lists[DataList(k)]), status, verf)
       IN  /\ SetHeap(s1)
           /\ rpcs' = [rpcs EXCEPT ![k] =
                          IF s1.lists[DataList(k)] # <<>>
                          THEN [@ EXCEPT !.reply = <<status, verf>>]
                          ELSE IF rpcs[k].sync THEN [NoRpc EXCEPT !.kind = "done"]
                          ELSE NoRpc]
    /\ UNCHANGED <<pc, loc, sigpending, others, version, wsize>>

\* -------------------------------------------------------------------- spec
Statuses == {0, 0 - EIO, 0 - ETIMEDOUT}

\* the byte ranges a write can cover inside its page
Ranges == {<<offset, count>> \in (0..(PAGE_CACHE_SIZE - 1)) \X (1..PAGE_CACHE_SIZE) :
              offset + count <= PAGE_CACHE_SIZE}

\* the replies to a WRITE call, as <<tk_status, short, committed, verf>>, and
\* to a COMMIT call, as <<tk_status, verf>>; a field the handler does not
\* look at in that case has one value
WriteReplies ==
    {<<status, FALSE, NFS_UNSTABLE, 0>> : status \in Statuses \ {0}}
    \cup {<<0, TRUE, NFS_UNSTABLE, 0>>, <<0, FALSE, NFS_DATA_SYNC, 0>>,
          <<0, FALSE, NFS_FILE_SYNC, 0>>}
    \cup {<<0, FALSE, NFS_UNSTABLE, verf>> : verf \in Verfs}

CommitReplies ==
    {<<status, 0>> : status \in Statuses \ {0}} \cup {<<0, verf>> : verf \in Verfs}

\* nfs_updatepage is called
CallNext ==
    \E t \in Writers, page \in Pages, rg \in Ranges, osync \in BOOLEAN :
        nfs_updatepage(t, page, rg[1], rg[2], osync)

\* nfs_updatepage is called by each writer to write the whole of its own page
CallPageNext ==
    \E t \in Writers : nfs_updatepage(t, t - 1, 0, PAGE_CACHE_SIZE, FALSE)

\* nfs_updatepage runs on
UpdateNext ==
    \/ \E t \in Writers : update_request_find(t)
    \/ \E t \in Writers : update_request_locked(t)
    \/ \E t \in Writers : create_request_init(t)
    \/ \E t \in Writers : create_request_count(t)
    \/ \E t \in Writers : updatepage_return(t)

\* nfs_update_request has waited for a busy request
BusyNext == \E t \in Writers : update_request_woken(t)

\* nfs_updatepage has flushed a request it could not update
ConflictNext == \E t \in Writers : updatepage_flushed(t)

\* nfs_strategy flushes
StrategyNext == \E t \in Writers : strategy_flushed(t)

\* the soft limit
SoftNext ==
    \/ \E t \in Writers : create_request_check(t)
    \/ \E t \in Writers : updatepage_release(t)

\* the hard limit
HardNext ==
    \/ \E t \in Writers : create_request_woken(t)
    \/ \E t \in Writers : create_request_again(t)
    \/ \E t \in Writers : Signal(t)
    \/ release_other

\* synchronous writes
OsyncNext ==
    \/ \E t \in Writers : updatepage_synced(t)
    \/ \E t \in Writers : rpc_execute_done(t)

\* nfs_sync_file, nfs_flush_file and nfs_flush_list
FlushNext ==
    \/ \E t \in Threads : sync_file_top(t)
    \/ \E t \in Threads : flush_file_scan(t)
    \/ \E t \in Threads, fail \in BOOLEAN : flush_list_step(t, fail)

\* nfs_sync_file waits for a busy request
WaitNext == \E t \in Threads : sync_file_woken(t)

\* nfs_commit_file
CommitNext == \E t \in Threads, fail \in BOOLEAN : commit_file_scan(t, fail)

WriteReplyNext ==
    \E k \in Rpcs, rp \in WriteReplies :
        nfs_writeback_done(k, rp[1], rp[2], rp[3], rp[4])

\* a WRITE call is done, with the data on stable storage
WriteStableNext == \E k \in Rpcs : nfs_writeback_done(k, 0, FALSE, NFS_FILE_SYNC, 0)

CommitReplyNext ==
    \E k \in Rpcs, rp \in CommitReplies : nfs_commit_done(k, rp[1], rp[2])

FlushdNext ==
    \/ \E due \in SUBSET Range(lists[DirtyList]) : nfs_flush_timeout(Flushd, due)
    \/ \E due \in SUBSET Range(lists[CommitList]), fail \in BOOLEAN :
          nfs_commit_timeout(Flushd, due, fail)

\* Two writers and the flush daemon on one file, well below the limits.
Next ==
    \/ CallNext
    \/ UpdateNext
    \/ BusyNext
    \/ ConflictNext
    \/ StrategyNext
    \/ FlushNext
    \/ WaitNext
    \/ CommitNext
    \/ WriteReplyNext
    \/ CommitReplyNext
    \/ FlushdNext

Spec == Init /\ [][Next]_vars

\* One writer whose writes may be synchronous, and calls that fail.
InitErr == InitWith([writers |-> 1, writes |-> ErrWrites, syncs |-> ErrWrites,
                     sweeps |-> 0, fails |-> ErrFails, releases |-> 0], 0)

NextErr ==
    \/ CallNext
    \/ UpdateNext
    \/ ConflictNext
    \/ StrategyNext
    \/ OsyncNext
    \/ FlushNext
    \/ WaitNext
    \/ CommitNext
    \/ WriteReplyNext
    \/ CommitReplyNext

SpecErr == InitErr /\ [][NextErr]_vars

\* One writer and the flush daemon, with no call failing.
InitCommit == InitWith([writers |-> 1, writes |-> CommitWrites, syncs |-> 0,
                        sweeps |-> CommitSweeps, fails |-> 0, releases |-> 0], 0)

NextCommit ==
    \/ CallNext
    \/ UpdateNext
    \/ BusyNext
    \/ ConflictNext
    \/ StrategyNext
    \/ FlushNext
    \/ WaitNext
    \/ CommitNext
    \/ WriteReplyNext
    \/ CommitReplyNext
    \/ FlushdNext

SpecCommit == InitCommit /\ [][NextCommit]_vars

\* Two writers with the other inodes of the mount holding the count at the
\* hard limit.
InitAdmit ==
    InitWith([writers |-> NWriters, writes |-> AdmitWrites, syncs |-> 0,
              sweeps |-> 0, fails |-> AdmitFails, releases |-> AdmitReleases],
             MAX_REQUEST_HARD)

NextAdmit ==
    \/ CallPageNext
    \/ UpdateNext
    \/ StrategyNext
    \/ SoftNext
    \/ HardNext
    \/ FlushNext
    \/ WaitNext
    \/ CommitNext
    \/ WriteStableNext

SpecAdmit == InitAdmit /\ [][NextAdmit]_vars

\* One writer and the flush daemon, with the completion handlers taken one
\* request at a time.
InitBatch == InitWith([writers |-> 1, writes |-> BatchWrites, syncs |-> 0,
                       sweeps |-> BatchSweeps, fails |-> BatchFails,
                       releases |-> 0], 0)

WriteStepNext ==
    \E k \in Rpcs, rp \in WriteReplies :
        writeback_done_step(k, rp[1], rp[2], rp[3], rp[4])

CommitStepNext ==
    \E k \in Rpcs, rp \in CommitReplies : commit_done_step(k, rp[1], rp[2])

NextBatch ==
    \/ CallNext
    \/ UpdateNext
    \/ BusyNext
    \/ ConflictNext
    \/ StrategyNext
    \/ FlushNext
    \/ WaitNext
    \/ CommitNext
    \/ WriteStepNext
    \/ CommitStepNext
    \/ FlushdNext

SpecBatch == InitBatch /\ [][NextBatch]_vars

\* Two writers at the hard limit, with nfs_wait_on_request taken one memory
\* access at a time.
InitRace ==
    InitWith([writers |-> NWriters, writes |-> RaceWrites, syncs |-> 0,
              sweeps |-> 0, fails |-> RaceFails, releases |-> RaceReleases],
             MAX_REQUEST_HARD)

RaceFlushNext ==
    \/ \E t \in Threads : wait_on_requests_pass(t)
    \/ \E t \in Threads : flush_file_scan(t)
    \/ \E t \in Threads, fail \in BOOLEAN : flush_list_step(t, fail)

RaceWaitNext ==
    \/ \E t \in Threads : wait_on_request(t)
    \/ \E t \in Threads : wait_on_request_count(t)
    \/ \E t \in Threads : sync_file_woken(t)

NextRace ==
    \/ CallPageNext
    \/ UpdateNext
    \/ StrategyNext
    \/ SoftNext
    \/ HardNext
    \/ RaceFlushNext
    \/ RaceWaitNext
    \/ CommitNext
    \/ WriteStableNext

SpecRace == InitRace /\ [][NextRace]_vars

\* The writers and the flush daemon, with the daemon called again and again,
\* every thread going on with what it has begun and every WRITE answered with
\* the data on stable storage.
InitLive == InitWith([writers |-> NWriters, writes |-> LiveWrites, syncs |-> 0,
                      sweeps |-> LiveWrites, fails |-> 0, releases |-> 0], 0)

SweepNext ==
    \E due \in SUBSET Range(lists[DirtyList]) : nfs_flush_timeout(Flushd, due)

\* what goes on by itself once nfs_updatepage has been called: the threads
\* inside the module, the daemon's sweeps and the replies of the server
LiveProgress ==
    \/ UpdateNext
    \/ \E t \in Threads : flush_list_step(t, FALSE)
    \/ SweepNext
    \/ WriteStableNext

NextLive == CallNext \/ LiveProgress

SpecLive == InitLive /\ [][NextLive]_vars /\ WF_vars(LiveProgress)

\* Two writers in nfs_updatepage for one page at a time, as if the page were
\* not locked, with the other inodes of the mount holding the count at the
\* hard limit.
InitSamePage ==
    InitWith([writers |-> NWriters, writes |-> SamePageWrites, syncs |-> 0,
              sweeps |-> 0, fails |-> SamePageFails, releases |-> SamePageReleases],
             MAX_REQUEST_HARD)

SamePageCallNext ==
    \E t \in Writers, rg \in Ranges : updatepage_entered(t, 0, rg[1], rg[2], FALSE)

NextSamePage ==
    \/ SamePageCallNext
    \/ UpdateNext
    \/ BusyNext
    \/ SoftNext
    \/ HardNext
    \/ FlushNext
    \/ WaitNext
    \/ CommitNext
    \/ WriteStableNext

SpecSamePage == InitSamePage /\ [][NextSamePage]_vars

\* Two writers on a mount whose wsize is below the page size or wpages pages.
InitUnbuffered ==
    \E w \in {PAGE_CACHE_SIZE - 1, WPages * PAGE_CACHE_SIZE} :
        InitServer([writers |-> NWriters, writes |-> UnbufferedWrites, syncs |-> 0,
                    sweeps |-> 0, fails |-> 0, releases |-> 0], 0, 3, w)

NextUnbuffered ==
    \/ CallNext
    \/ UpdateNext
    \/ StrategyNext
    \/ \E t \in Threads : flush_file_scan(t)
    \/ \E t \in Threads : flush_list_step(t, FALSE)
    \/ WriteStableNext

SpecUnbuffered == InitUnbuffered /\ [][NextUnbuffered]_vars

\* One writer whose calls of nfs_updatepage end up in nfs_sync_file, with a
\* server that does not reboot: every WRITE call is answered with the data
\* on stable storage or unstable with the one verifier, every COMMIT call
\* with that verifier.
InitSync == InitWith([writers |-> 1, writes |-> SyncWrites, syncs |-> 0,
                      sweeps |-> 0, fails |-> SyncFails, releases |-> 0],
                     0)

SyncReplyNext ==
    \/ WriteStableNext
    \/ \E k \in Rpcs : nfs_writeback_done(k, 0, FALSE, NFS_UNSTABLE, 1)
    \/ \E k \in Rpcs : nfs_commit_done(k, 0, 1)

\* the steps that are taken in the end when they can be taken: a thread
\* inside nfs_updatepage runs on, and the server answers
SyncProgress ==
    \/ UpdateNext
    \/ BusyNext
    \/ ConflictNext
    \/ StrategyNext
    \/ SoftNext
    \/ FlushNext
    \/ WaitNext
    \/ CommitNext
    \/ SyncReplyNext

NextSync == CallNext \/ SyncProgress

SpecSync == InitSync /\ [][NextSync]_vars /\ WF_vars(SyncProgress)

\* One writer on a mount of either NFS version, with every WRITE answered
\* with the data on stable storage.
InitStrategy ==
    \E v \in {2, 3} :
        InitMount([writers |-> 1, writes |-> StrategyWrites, syncs |-> 0,
                   sweeps |-> 0, fails |-> 0, releases |-> 0], 0, v)

NextStrategy ==
    \/ CallNext
    \/ UpdateNext
    \/ BusyNext
    \/ StrategyNext
    \/ \E t \in Writers : create_request_check(t)
    \/ FlushNext
    \/ WaitNext
    \/ CommitNext
    \/ WriteStableNext

SpecStrategy == InitStrategy /\ [][NextStrategy]_vars

\* nfs_mark_request_dirty and nfs_mark_request_commit applied to the requests
\* of an inode: asg tells of each page whether it has no request ("none"), a
\* request on no list ("off"), or one on the dirty or on the commit list.
\* The lists are in ascending page order, as nfs_list_add_request keeps them.
InitMark ==
    \E asg \in [Pages -> {"none", "off", "dirty", "commit"}] :
        LET pgs == {p \in Pages : asg[p] # "none"}
            n == Cardinality(pgs)
            pageOf(r) == CHOOSE p \in pgs : Cardinality({q \in pgs : q < p}) = r - 1
            listOf(r) == IF asg[pageOf(r)] = "dirty" THEN DirtyList
                         ELSE IF asg[pageOf(r)] = "commit" THEN CommitList
                         ELSE NoList
            onList(l) == {r \in 1..n : listOf(r) = l}
            asSeq(S) == [i \in 1..Cardinality(S) |->
                            CHOOSE r \in S : Cardinality({q \in S : q < r}) = i - 1]
        IN  /\ n > 0
            /\ reqs = [r \in Reqs |->
                          IF r <= n
                          THEN [nfs_page_alloc EXCEPT
                                   !.alive = TRUE, !.wb_page = pageOf(r),
                                   !.wb_offset = 0, !.wb_bytes = PAGE_CACHE_SIZE,
                                   !.wb_count = 2, !.busy = TRUE, !.wb_hash = TRUE,
                                   !.wb_list = listOf(r) # NoList,
                                   !.wb_list_head = listOf(r)]
                          ELSE nfs_page_alloc]
            /\ writeback = [i \in 1..n |-> n + 1 - i]
            /\ lists = [l \in ListIds |->
                           IF l \in {DirtyList, CommitList} THEN asSeq(onList(l))
                           ELSE <<>>]
            /\ npages = n
            /\ ndirty = Cardinality(onList(DirtyList))
            /\ ncommit = Cardinality(onList(CommitList))
            /\ nfs_nr_requests = n
            /\ f_error = 0
            /\ request_wait = {}
            /\ hist = NoHist
            /\ rpcs = [k \in Rpcs |-> NoRpc]
            /\ pc = [t \in Threads |-> "idle"]
            /\ loc = [t \in Threads |-> Loc0]
            /\ sigpending = {}
            /\ others = 0
            /\ version = 3
            /\ wsize = WPages * PAGE_CACHE_SIZE
            /\ budget = [writers |-> 0, writes |-> 0, syncs |-> 0, sweeps |-> 0,
                         fails |-> 0, releases |-> 0]

\* nfs_mark_request_dirty(req) is called for a request of the inode
mark_request_dirty_call(r) ==
    /\ reqs[r].alive
    /\ SetHeap(nfs_mark_request_dirty(Heap, r))
    /\ loc' = [loc EXCEPT ![Flushd].req = r, ![Flushd].marked = "dirty",
                          ![Flushd].start = IF reqs[r].wb_list THEN 1 ELSE 0]
    /\ UNCHANGED <<rpcs, pc, sigpending, others, version, wsize, budget>>

\* nfs_mark_request_commit(req) is called for a request of the inode
mark_request_commit_call(r) ==
    /\ reqs[r].alive
    /\ SetHeap(nfs_mark_request_commit(Heap, r))
    /\ loc' = [loc EXCEPT ![Flushd].req = r, ![Flushd].marked = "commit",
                          ![Flushd].start = IF reqs[r].wb_list THEN 1 ELSE 0]
    /\ UNCHANGED <<rpcs, pc, sigpending, others, version, wsize, budget>>

NextMark ==
    \/ \E r \in Reqs : mark_request_dirty_call(r)
    \/ \E r \in Reqs : mark_request_commit_call(r)

SpecMark == InitMark /\ [][NextMark]_vars

\* nfs_flush_list on a list that a scan of the dirty list has filled: asg
\* gives each page the byte range of its request, or <<>> for none.  The
\* requests are hashed and locked, as nfs_scan_list leaves them.
InitCoalesce ==
    \E asg \in [Pages -> Ranges \cup {<<>>}] :
        LET pgs == {p \in Pages : asg[p] # <<>>}
            n == Cardinality(pgs)
            pageOf(r) == CHOOSE p \in pgs : Cardinality({q \in pgs : q < p}) = r - 1
        IN  /\ n > 0
            /\ reqs = [r \in Reqs |->
                          IF r <= n
                          THEN [nfs_page_alloc EXCEPT
                                   !.alive = TRUE, !.wb_page = pageOf(r),
                                   !.wb_offset = asg[pageOf(r)][1],
                                   !.wb_bytes = asg[pageOf(r)][2],
                                   !.wb_count = 2, !.busy = TRUE, !.wb_hash = TRUE,
                                   !.wb_list = TRUE, !.wb_list_head = HeadList(Flushd)]
                          ELSE nfs_page_alloc]
            /\ writeback = [i \in 1..n |-> n + 1 - i]
            /\ lists = [l \in ListIds |->
                           IF l = HeadList(Flushd) THEN [i \in 1..n |-> i] ELSE <<>>]
            /\ npages = n
            /\ ndirty = 0
            /\ ncommit = 0
            /\ nfs_nr_requests = n
            /\ f_error = 0
            /\ request_wait = {}
            /\ hist = NoHist
            /\ rpcs = [k \in Rpcs |-> NoRpc]
            /\ pc = [t \in Threads |-> IF t = Flushd THEN "fl_loop" ELSE "idle"]
            /\ loc = [t \in Threads |->
                         IF t = Flushd THEN [Loc0 EXCEPT !.error = n] ELSE Loc0]
            /\ sigpending = {}
            /\ others = 0
            /\ version = 3
            /\ wsize = WPages * PAGE_CACHE_SIZE
            /\ budget = [writers |-> 0, writes |-> 0, syncs |-> 0, sweeps |-> 0,
                         fails |-> 0, releases |-> 0]

NextCoalesce ==
    \/ \E fail \in BOOLEAN : flush_list_step(Flushd, fail)
    \/ WriteReplyNext

SpecCoalesce == InitCoalesce /\ [][NextCoalesce]_vars

\* ------------------------------------------------------------ sanity
TypeOK ==
    /\ \A r \in Reqs : reqs[r].wb_count >= 0
    /\ nfs_nr_requests >= 0
    /\ \A t \in Threads : pc[t] \in
          {"idle", "upd_find", "upd_wait", "upd_locked", "upd_wbret", "sy_busy",
           "sy_count",
           "upd_strat", "upd_release", "upd_syncret", "upd_ret", "cr_top", "cr_check",
           "cr_sleep", "cr_init", "cr_count", "sy_top", "sy_waiting", "ff_scan", "fl_loop",
           "fl_wait", "cf_scan", "cf_wait"}


\* ----------------------------------------------------------------- claims
\* C1: in every reachable state, whatever the interleaving of writes,
\* flushes, commits and completions, no write request is on both the dirty
\* list and the commit list of the inode, nor twice on either.
NoDoubleMembership ==
    \A r \in Reqs :
        Cardinality({i \in 1..Len(lists[DirtyList]) : lists[DirtyList][i] = r})
          + Cardinality({i \in 1..Len(lists[CommitList]) : lists[CommitList][i] = r})
          <= 1

\* one request waits for its COMMIT while another one is dirty
BothListsInUse ==
    /\ lists[DirtyList] # <<>>
    /\ lists[CommitList] # <<>>
    /\ \E r \in Range(lists[CommitList]) : reqs[r].wb_verf # 0

\* C2: under any interleaving of writers in nfs_create_request and of
\* releases, nfs_nr_requests never exceeds MAX_REQUEST_HARD.
HardLimitKept == nfs_nr_requests <= MAX_REQUEST_HARD

CommitConverges ==
    [][/\ \A k \in Rpcs, verf \in Verfs :
             nfs_commit_done(k, 0, verf)
             => \A r \in Range(lists[DataList(k)]) :
                   IF reqs[r].wb_verf = verf
                   THEN /\ ~reqs'[r].wb_hash
                        /\ r \notin Range(writeback')
                        /\ \A l \in ListIds : r \notin Range(lists'[l])
                        /\ reqs'[r].alive => reqs'[r].wb_count < reqs[r].wb_count
                   ELSE /\ r \in Range(lists'[DirtyList])
                        /\ reqs'[r].wb_hash
                        /\ ~reqs'[r].busy
       /\ \A k \in Rpcs, verf \in Verfs :
             nfs_writeback_done(k, 0, FALSE, NFS_UNSTABLE, verf)
             => \A r \in Range(lists[DataList(k)]) :
                   /\ r \in Range(lists'[CommitList])
                   /\ reqs'[r].wb_verf = verf]_vars

\* a request that a COMMIT reply had sent back to the dirty list has been
\* written again and removed by a COMMIT reply with its verifier
CommitConverged == hist.converged

\* C6, as stated: each batch nfs_flush_list makes with coalesce_requests is
\* the front of the list, in the list's order, of consecutive pages and of
\* at most maxpages requests, and it ends before the end of the list only at
\* a gap in the page indices or at maxpages.
BatchesMaximalRuns ==
    [][\A k \in Rpcs :
          (pc[Flushd] = "fl_loop" /\ rpcs[k].kind = "none" /\ rpcs'[k].kind = "write")
          => LET src == lists[HeadList(Flushd)]
                 batch == lists'[DataList(k)]
                 rest == lists'[HeadList(Flushd)]
                 n == Len(batch)
             IN  /\ n >= 1
                 /\ n <= WPages
                 /\ batch \o rest = src
                 /\ \A i \in 1..(n - 1) :
                       reqs[batch[i + 1]].wb_page = reqs[batch[i]].wb_page + 1
                 /\ \/ rest = <<>>
                    \/ n = WPages
                    \/ reqs[Head(rest)].wb_page # reqs[batch[n]].wb_page + 1]_vars

\* C6, amended: each batch is the front of the list, in the list's order, of
\* consecutive pages and of at most maxpages requests, and it ends before
\* the end of the list only at a gap in the page indices, at maxpages, before
\* a request that does not start at offset 0 of its page, or after a request
\* that does not reach the end of its page.
BatchesContiguousRuns ==
    [][\A k \in Rpcs :
          (pc[Flushd] = "fl_loop" /\ rpcs[k].kind = "none" /\ rpcs'[k].kind = "write")
          => LET src == lists[HeadList(Flushd)]
                 batch == lists'[DataList(k)]
                 rest == lists'[HeadList(Flushd)]
                 n == Len(batch)
             IN  /\ n >= 1
                 /\ n <= WPages
                 /\ batch \o rest = src
                 /\ \A i \in 1..(n - 1) :
                       reqs[batch[i + 1]].wb_page = reqs[batch[i]].wb_page + 1
                 /\ \/ rest = <<>>
                    \/ n = WPages
                    \/ reqs[Head(rest)].wb_page # reqs[batch[n]].wb_page + 1
                    \/ reqs[Head(rest)].wb_offset # 0
                    \/ reqs[batch[n]].wb_offset + reqs[batch[n]].wb_bytes
                          # PAGE_CACHE_SIZE]_vars

\* a batch shorter than maxpages with the request of the next page left on
\* the list
BatchCutInsideRun ==
    /\ pc[Flushd] = "fl_loop"
    /\ lists[HeadList(Flushd)] # <<>>
    /\ \E k \in Rpcs :
          /\ rpcs[k].kind = "write"
          /\ lists[DataList(k)] # <<>>
          /\ Len(lists[DataList(k)]) < WPages
          /\ reqs[Head(lists[HeadList(Flushd)])].wb_page
                = reqs[lists[DataList(k)][Len(lists[DataList(k)])]].wb_page + 1

\* C7: with the error of a failed WRITE stored in f_error, the next
\* synchronous write returns that error and clears f_error.
SyncReturnsStoredError ==
    [][\A t \in Writers :
          (pc[t] = "upd_syncret" /\ pc'[t] = "upd_ret" /\ f_error < 0)
          => /\ loc'[t].status = f_error
             /\ f_error' = 0]_vars

\* C8: when nfs_update_request finds the page's request dirty and the write
\* overlapping or touching it, the request's span becomes the union of the
\* two, [min(start), max(end)), so that the same range written again leaves
\* it as it was; and the page never has a second request hashed.
WriteWidensRequest ==
    [][/\ \A t \in Writers :
             LET r == loc[t].req
                 offset == loc[t].offset
                 end == loc[t].offset + loc[t].bytes
                 rqend == reqs[r].wb_offset + reqs[r].wb_bytes
             IN  (/\ pc[t] = "upd_locked"
                  /\ pc'[t] # "upd_locked"
                  /\ reqs[r].wb_list
                  /\ reqs[r].wb_list_head = DirtyList
                  /\ offset <= rqend
                  /\ end >= reqs[r].wb_offset)
                 => /\ reqs'[r].wb_hash
                    /\ reqs'[r].wb_page = loc[t].page
                    /\ reqs'[r].wb_offset = Min(reqs[r].wb_offset, offset)
                    /\ reqs'[r].wb_offset + reqs'[r].wb_bytes = Max(rqend, end)
       /\ \A page \in Pages :
             Cardinality({i \in 1..Len(writeback') :
                             reqs'[writeback'[i]].wb_page = page}) <= 1]_vars

\* nfs_updatepage has returned and the page's request covers more than the
\* bytes of this write: an earlier write has been merged with it
WriteMerged ==
    \E t \in Writers, r \in Reqs :
        /\ pc[t] = "upd_ret"
        /\ loc[t].status = 0
        /\ reqs[r].wb_hash
        /\ reqs[r].wb_page = loc[t].page
        /\ reqs[r].wb_list_head = DirtyList
        /\ reqs[r].wb_bytes > loc[t].bytes

OneWriterAdmitted ==
    Cardinality({t \in Writers : loc[t].slept = "woken" /\ loc[t].new # NoReq}) <= 1

\* C11: when a call of nfs_sync_file with FLUSH_WAIT returns 0, no request
\* of its range that a COMMIT reply with another verifier had sent back to
\* the dirty list before the call is still hashed and busy, on the dirty
\* list or on the commit list.
SyncReturnsDurable ==
    [][\A t \in Threads :
          (/\ pc[t] = "cf_scan"
           /\ loc[t].fret = "sy_committed"
           /\ FLUSH_WAIT \in loc[t].how
           /\ pc'[t] = loc[t].ret
           /\ loc'[t].error = 0)
          => \A r \in loc[t].seen :
                (reqs'[r].wb_hash /\ reqs'[r].redirtied)
                => /\ ~reqs'[r].busy
                   /\ r \notin Range(lists'[DirtyList])
                   /\ r \notin Range(lists'[CommitList])]_vars

\* the requests that nfs_create_request has returned and nfs_release_request
\* has not freed
Created ==
    {r \in Reqs : /\ reqs[r].alive
                  /\ ~\E t \in Writers : /\ pc[t] \in {"cr_init", "cr_count"}
                                         /\ loc[t].new = r}

\* C12: whenever no nfs_create_request is between the allocation of its
\* request and the end of nfs_nr_requests++, nfs_nr_requests is the number
\* of requests created and not yet freed, those of other files included; so
\* it is 0 once every request has been freed.
CountIsLiveRequests ==
    (\A t \in Writers : pc[t] \notin {"cr_init", "cr_count"})
    => nfs_nr_requests = others + Cardinality(Created)

BatchDoneUnderOneLock ==
    \A k \in Rpcs : ~(rpcs[k].reply # <<>> /\ lists[DataList(k)] # <<>>)

\* C14, amended: a completion handler takes the requests of its batch one by
\* one, each in its own critical sections of nfs_wreq_lock: a step of the
\* handler removes the first request of data->pages, leaves it unlocked and
\* either unhashed and on no list or hashed and on the dirty or the commit
\* list, and does not touch the other requests of the batch, which stay
\* locked, hashed and on data->pages for the observers that run in between.
BatchTakenOneByOne ==
    [][\A k \in Rpcs :
          (/\ rpcs[k].kind \in {"write", "commit"}
           /\ lists'[DataList(k)] # lists[DataList(k)])
          => LET r == Head(lists[DataList(k)])
                 rest == Tail(lists[DataList(k)])
             IN  /\ lists'[DataList(k)] = rest
                 /\ ~reqs'[r].busy
                 /\ IF reqs'[r].wb_hash
                    THEN \/ r \in Range(lists'[DirtyList])
                         \/ r \in Range(lists'[CommitList])
                    ELSE /\ r \notin Range(writeback')
                         /\ \A l \in ListIds : r \notin Range(lists'[l])
                 /\ \A q \in Range(rest) :
                       /\ reqs'[q] = reqs[q]
                       /\ reqs[q].busy
                       /\ reqs[q].wb_hash]_vars

\* a WRITE reply has put the first request of its batch on the commit list
\* and the handler has not yet come to the second one
BatchHalfDone ==
    \E k \in Rpcs :
        /\ rpcs[k].kind = "write"
        /\ rpcs[k].reply # <<>>
        /\ lists[DataList(k)] # <<>>
        /\ lists[CommitList] # <<>>

\* C15: a COMMIT reply with tk_status 0 whose verifier differs from the
\* wb_verf of a request of its batch leaves f_error as it was; what it does
\* to that request is to put it back on the dirty list, its page, offset,
\* length and verifier unchanged.
MismatchKeepsError ==
    [][\A k \in Rpcs, verf \in Verfs :
          (/\ nfs_commit_done(k, 0, verf)
           /\ \E r \in Range(lists[DataList(k)]) : reqs[r].wb_verf # verf)
          => /\ f_error' = f_error
             /\ \A r \in Range(lists[DataList(k)]) :
                   reqs[r].wb_verf # verf
                   => /\ r \in Range(lists'[DirtyList])
                      /\ reqs'[r].wb_page = reqs[r].wb_page
                      /\ reqs'[r].wb_offset = reqs[r].wb_offset
                      /\ reqs'[r].wb_bytes = reqs[r].wb_bytes
                      /\ reqs'[r].wb_verf = reqs[r].wb_verf]_vars

\* f_error holds the error of a failed call while a request that a COMMIT
\* reply has sent back to the dirty list waits there
MismatchWithErrorStored ==
    /\ f_error < 0
    /\ \E r \in Range(lists[DirtyList]) : reqs[r].redirtied /\ ~reqs[r].busy

\* C16: in every reachable state the dirty list and the commit list are in
\* strictly ascending order of page index, and so are the lists that the
\* scans fill and the batches (data->pages) that coalesce_requests makes of
\* them.
ListsAscending ==
    \A l \in ListIds :
        \A i, j \in 1..Len(lists[l]) :
            i < j => reqs[lists[l][i]].wb_page < reqs[lists[l][j]].wb_page

\* a batch of two requests in which the request of the lower page was
\* created after the other one
BatchReordered ==
    \E k \in Rpcs :
        /\ Len(lists[DataList(k)]) >= 2
        /\ lists[DataList(k)][1] > lists[DataList(k)][2]

\* C17: when a WRITE reply has a status that is not negative and committed
\* other than NFS_UNSTABLE, nfs_writeback_done takes each request of the
\* batch out of the inode's hash, leaves it on no list and not busy, and the
\* request is freed there and then unless someone else holds a reference,
\* who then holds the only ones left.
DurableWriteReleases ==
    [][\A k \in Rpcs, committed \in {NFS_DATA_SYNC, NFS_FILE_SYNC} :
          writeback_done_step(k, 0, FALSE, committed, 0)
          => LET r == Head(lists[DataList(k)])
             IN  /\ ~reqs'[r].wb_hash
                 /\ r \notin Range(writeback')
                 /\ \A l \in ListIds : r \notin Range(lists'[l])
                 /\ ~reqs'[r].busy
                 /\ IF reqs[r].wb_count = 2
                    THEN ~reqs'[r].alive /\ FreeReqs(Heap)' = FreeReqs(Heap) \cup {r}
                    ELSE /\ reqs'[r].alive
                         /\ reqs'[r].wb_count = reqs[r].wb_count - 2]_vars

\* no call has failed, the flush daemon has come by once, and the writer,
\* asleep in nfs_update_request, holds the last references to the request it
\* waited for, which is no longer hashed nor busy
DurableWriteLeftHolder ==
    /\ budget.fails = BatchFails
    /\ budget.sweeps = BatchSweeps - 1
    /\ \E t \in Writers :
          /\ pc[t] = "upd_wait"
          /\ reqs[loc[t].req].alive
          /\ ~reqs[loc[t].req].wb_hash
          /\ ~reqs[loc[t].req].busy

\* C18: when a WRITE call made with stable = NFS_UNSTABLE is answered with
\* status 0 and committed = NFS_UNSTABLE, nfs_writeback_done stores the
\* verifier of the reply in wb_verf of each request of the batch, puts the
\* request on the commit list, counts it in ncommit, leaves it hashed and
\* unlocks it.
UnstableWriteAwaitsCommit ==
    [][\A k \in Rpcs, verf \in Verfs :
          (/\ rpcs[k].stable = NFS_UNSTABLE
           /\ writeback_done_step(k, 0, FALSE, NFS_UNSTABLE, verf))
          => LET r == Head(lists[DataList(k)])
             IN  /\ reqs'[r].wb_verf = verf
                 /\ r \in Range(lists'[CommitList])
                 /\ r \notin Range(lists[CommitList])
                 /\ ncommit' = ncommit + 1
                 /\ reqs'[r].wb_hash
                 /\ r \in Range(writeback')
                 /\ ~reqs'[r].busy
                 /\ reqs'[r].wb_count = reqs[r].wb_count - 1]_vars

\* a request waits on the commit list, unlocked, with the second verifier
\* that a reply has handed out, while the handler still has requests of
\* that reply's batch to go through
CommitListHoldsVerifier ==
    \E k \in Rpcs :
        /\ rpcs[k].kind = "write"
        /\ rpcs[k].stable = NFS_UNSTABLE
        /\ rpcs[k].reply = <<0, FALSE, NFS_UNSTABLE, 2>>
        /\ \E r \in Range(lists[CommitList]) :
              reqs[r].wb_verf = 2 /\ ~reqs[r].busy /\ reqs[r].wb_hash

\* C19, as stated: when the loop of coalesce_requests comes to a request
\* that does not start at offset 0 of its page, the request goes into the
\* batch and is the last one of the batch, wherever in the run it stands.
PartialStartEndsBatch ==
    [][\A k \in Rpcs :
          (pc[Flushd] = "fl_loop" /\ rpcs[k].kind = "none" /\ rpcs'[k].kind = "write")
          => LET batch == lists'[DataList(k)]
                 rest == lists'[HeadList(Flushd)]
                 n == Len(batch)
             IN  /\ \A i \in 1..n : reqs[batch[i]].wb_offset # 0 => i = n
                 /\ ~(/\ rest # <<>>
                      /\ reqs[Head(rest)].wb_offset # 0
                      /\ reqs[Head(rest)].wb_page = reqs[batch[n]].wb_page + 1
                      /\ reqs[batch[n]].wb_offset + reqs[batch[n]].wb_bytes
                            = PAGE_CACHE_SIZE
                      /\ n < WPages)]_vars

\* C19, amended: a request that does not start at offset 0 of its page is
\* never added to a batch that already holds a request: the loop stops
\* before it and leaves it on the list, to be the first request of the next
\* batch.  As the first request of a batch it is taken, and the batch goes
\* on after it when it reaches the end of its page, the request of the next
\* page starts at offset 0 and maxpages allows it.
PartialStartBeginsBatch ==
    [][\A k \in Rpcs :
          (pc[Flushd] = "fl_loop" /\ rpcs[k].kind = "none" /\ rpcs'[k].kind = "write")
          => LET src == lists[HeadList(Flushd)]
                 batch == lists'[DataList(k)]
                 rest == lists'[HeadList(Flushd)]
                 n == Len(batch)
             IN  /\ n >= 1
                 /\ batch[1] = Head(src)
                 /\ batch \o rest = src
                 /\ \A i \in 2..n : reqs[batch[i]].wb_offset = 0
                 /\ (/\ reqs[batch[1]].wb_offset # 0
                     /\ reqs[batch[1]].wb_offset + reqs[batch[1]].wb_bytes
                           = PAGE_CACHE_SIZE
                     /\ Len(src) >= 2
                     /\ reqs[src[2]].wb_page = reqs[src[1]].wb_page + 1
                     /\ reqs[src[2]].wb_offset = 0
                     /\ WPages >= 2)
                    => n >= 2]_vars

\* a batch of more than one request whose first request does not start at
\* offset 0 of its page
BatchBeginsMidPage ==
    \E k \in Rpcs :
        /\ rpcs[k].kind = "write"
        /\ Len(lists[DataList(k)]) >= 2
        /\ reqs[lists[DataList(k)][1]].wb_offset # 0

\* C20: a scan of the dirty list or of the commit list does not wait: each
\* request that is busy when the scan comes by stays on its list with all
\* its fields as they were, the other requests of the range (or, for the
\* flush daemon, those that are due) are locked and taken off the list, and
\* the count the scan returns is the number of requests taken.
ScansSkipBusy ==
    [][/\ \A t \in Threads :
             (\/ pc[t] = "ff_scan" /\ pc'[t] # "ff_scan"
              \/ pc[t] = "idle" /\ pc'[t] = "fl_loop")
             => LET taken == Range(lists'[HeadList(t)])
                IN  /\ \A r \in Range(lists[DirtyList]) :
                          reqs[r].busy => /\ reqs'[r] = reqs[r]
                                          /\ r \in Range(lists'[DirtyList])
                    /\ \A r \in taken :
                          /\ r \in Range(lists[DirtyList])
                          /\ ~reqs[r].busy
                          /\ reqs'[r].busy
                          /\ r \notin Range(lists'[DirtyList])
                    /\ pc'[t] = "fl_loop" => loc'[t].error = Cardinality(taken)
                    /\ ndirty' = ndirty - Cardinality(taken)
                    /\ pc[t] = "ff_scan"
                       => taken = {r \in Range(lists[DirtyList]) :
                                      /\ ~reqs[r].busy
                                      /\ InRange(Heap, r, loc[t].start, loc[t].count)}
       /\ \A k \in Rpcs :
             (rpcs[k].kind = "none" /\ rpcs'[k].kind = "commit")
             => LET taken == Range(lists'[DataList(k)])
                IN  /\ \A r \in Range(lists[CommitList]) :
                          reqs[r].busy => /\ reqs'[r] = reqs[r]
                                          /\ r \in Range(lists'[CommitList])
                    /\ \A r \in taken :
                          /\ r \in Range(lists[CommitList])
                          /\ ~reqs[r].busy
                          /\ reqs'[r].busy
                          /\ r \notin Range(lists'[CommitList])
                    /\ ncommit' = ncommit - Cardinality(taken)]_vars

\* the flush daemon has just scanned the dirty list, has taken a request and
\* has left a busy one behind
ScanLeftBusyBehind ==
    /\ pc[Flushd] = "fl_loop"
    /\ loc[Flushd].error = Len(lists[HeadList(Flushd)])
    /\ lists[HeadList(Flushd)] # <<>>
    /\ \E r \in Range(lists[DirtyList]) :
          /\ reqs[r].busy
          /\ r < Head(lists[HeadList(Flushd)])

\* C21: a writer that has found the request of its page busy sleeps until
\* the request is no longer busy and then looks the page up again: it goes
\* on with a request only after a lookup that found it hashed for its page
\* and not busy, and locked it, or that found none and hashed the writer's
\* new one; and the region of a hashed request changes only in the hands of
\* the writer that holds it locked.
WaiterLooksUpAgain ==
    [][\A t \in Writers :
          /\ (pc[t] = "upd_wait" /\ pc'[t] # "upd_wait")
             => /\ ~reqs[loc[t].req].busy
                /\ pc'[t] = "upd_find"
                /\ loc'[t].req = NoReq
          /\ (pc[t] # "upd_locked" /\ pc'[t] = "upd_locked")
             => LET r == loc'[t].req
                IN  /\ reqs'[r].wb_hash
                    /\ r \in Range(writeback')
                    /\ reqs'[r].wb_page = loc'[t].page
                    /\ reqs'[r].busy
                    /\ ~reqs[r].busy
                    /\ find_request(Heap, loc'[t].page) \in {r, NoReq}
                    /\ find_request(Heap, loc'[t].page) = NoReq => r = loc[t].new
          /\ \A r \in Reqs :
                (/\ reqs[r].wb_hash
                 /\ reqs'[r].wb_hash
                 /\ \/ reqs'[r].wb_offset # reqs[r].wb_offset
                    \/ reqs'[r].wb_bytes # reqs[r].wb_bytes)
                => \E u \in Writers :
                      /\ pc[u] = "upd_locked"
                      /\ pc'[u] # "upd_locked"
                      /\ loc[u].req = r
                      /\ reqs[r].busy]_vars

\* a writer has slept on a busy request that was unhashed when it woke, and
\* now holds the request of its page locked
WaiterHoldsFreshRequest ==
    \E t \in Writers :
        /\ pc[t] = "upd_locked"
        /\ loc[t].waited = "gone"
        /\ reqs[loc[t].req].busy
        /\ reqs[loc[t].req].wb_hash

\* who holds the busy flag of request r: the writers that have locked it in
\* nfs_update_request, and the private lists (of a scan, of a batch being
\* built, of an RPC task) it is on
BusyHolders(r) ==
    {<<"writer", t>> : t \in {u \in Writers : pc[u] = "upd_locked" /\ loc[u].req = r}}
    \cup {l \in ListIds \ {DirtyList, CommitList} : r \in Range(lists[l])}

\* C22: in every reachable state a busy request has exactly one holder of
\* its busy flag, a writer in nfs_update_request, a scan or an RPC task, and
\* a request that is not busy has none: no lock attempt succeeds between a
\* successful nfs_lock_request and the nfs_unlock_request that matches it.
OneBusyHolder ==
    \A r \in Reqs :
        Cardinality(BusyHolders(r)) = IF reqs[r].busy THEN 1 ELSE 0

\* a writer sleeps on the request of its page, which an RPC task holds
BusyRequestContended ==
    \E t \in Writers, k \in Rpcs :
        /\ pc[t] = "upd_wait"
        /\ reqs[loc[t].req].busy
        /\ loc[t].req \in Range(lists[DataList(k)])

\* C23: nfs_wait_on_request adds its reference to the count the request has
\* at that moment: no update of wb_count made by another processor is lost
\* by it.
WaitCountsAtomically ==
    [][\A t \in Threads :
          wait_on_request_count(t)
          => reqs'[loc[t].wreq].wb_count = reqs[loc[t].wreq].wb_count + 1]_vars

\* C24: nfs_mark_request_dirty and nfs_mark_request_commit are idempotent:
\* called for a request that is already on the destination list they leave
\* the lists, ndirty and ncommit as they are, and called a second time after
\* any call they change nothing.
MarkIsIdempotent ==
    [][\A r \in Reqs :
          /\ mark_request_dirty_call(r)
             => /\ r \in Range(lists[DirtyList])
                   => UNCHANGED <<lists, ndirty, ncommit>>
                /\ nfs_mark_request_dirty(Heap, r)' = Heap'
          /\ mark_request_commit_call(r)
             => /\ r \in Range(lists[CommitList])
                   => UNCHANGED <<lists, ndirty, ncommit>>
                /\ nfs_mark_request_commit(Heap, r)' = Heap']_vars

\* nfs_mark_request_dirty has been called for a request that was on the dirty
\* list, with another request there too
MarkedAgain ==
    /\ loc[Flushd].marked = "dirty"
    /\ loc[Flushd].start = 1
    /\ loc[Flushd].req \in Range(lists[DirtyList])
    /\ ndirty = 2
    /\ ncommit = 1

\* C25: a request is freed only with its count at 0, on no list, not hashed
\* and not busy: none of the three checks of nfs_release_request fires, and
\* a request that is free is on no list, in no RPC call and has no holder.
FreedOnlyWhenIdle ==
    /\ hist.printk = {}
    /\ \A r \in Reqs :
          ~reqs[r].alive
          => /\ reqs[r].wb_count = 0
             /\ \A l \in DOMAIN lists : r \notin Range(lists[l])
             /\ r \notin Range(writeback)
             /\ BusyHolders(r) = {}

\* C26: whenever nfs_strategy comes to its second test with nfs_nr_requests
\* at or above MAX_REQUEST_SOFT, exactly at it included, it flushes the file
\* with nfs_wb_file, whatever the dirty count of the file.
PressureAtSoftLimit ==
    [][\A t \in Writers :
          (strategy_flushed(t) /\ nfs_nr_requests >= MAX_REQUEST_SOFT)
          => pc'[t] = "sy_top"]_vars

\* writer t takes the step of nfs_updatepage that calls nfs_strategy: the
\* file is not O_SYNC and the request, updated, covers its whole page
StrategyCalled(t) ==
    /\ update_request_locked(t)
    /\ ~loc[t].osync
    /\ LET req == loc[t].req
           end == loc[t].offset + loc[t].bytes
           rq == update_region(reqs[req], loc[t].offset, end)
       IN  /\ ~update_conflict(Heap, req, loc[t].offset, end)
           /\ rq.wb_offset = 0
           /\ rq.wb_bytes = PAGE_CACHE_SIZE

\* nfs_strategy has gone on to nfs_flush_file
StrategyFlushes(t) == pc'[t] = "ff_scan" /\ loc'[t].fret = "upd_strat"

SweepTakesAllDue ==
    [][\A due \in SUBSET Reqs :
          nfs_flush_timeout(Flushd, due)
          => Range(lists'[HeadList(Flushd)]) = due]_vars

\* C28: a sweep of nfs_flush_timeout takes every request of the dirty list
\* whose wb_timeout has elapsed and that nobody holds locked, and no other;
\* and with the sweep called again and again and the WRITE calls answered,
\* every request on the dirty list is in the end sent in a WRITE call.
SweepDispatchesDirty ==
    /\ [][\A due \in SUBSET Reqs :
             nfs_flush_timeout(Flushd, due)
             => /\ Range(lists'[HeadList(Flushd)]) = {r \in due : ~reqs[r].busy}
                /\ Range(lists'[DirtyList]) =
                       Range(lists[DirtyList]) \ {r \in due : ~reqs[r].busy}]_vars
    /\ \A r \in Reqs :
          (r \in Range(lists[DirtyList]))
          ~> (\E k \in Rpcs : r \in Range(lists[DataList(k)]))

\* a sweep has taken one request off the dirty list and left behind another
\* that its writer still holds locked
SweepTookRequest ==
    /\ pc[Flushd] = "fl_loop"
    /\ loc[Flushd].fret = "idle"
    /\ Len(lists[HeadList(Flushd)]) = 1
    /\ Len(lists[DirtyList]) = 1
    /\ reqs[lists[DirtyList][1]].busy
    /\ \E t \in Writers : pc[t] = "upd_locked"

\* a thread is inside nfs_sync_file
InSyncFile(t) == loc[t].ret # ""

\* the request is one that a cycle of thread t's nfs_sync_file would wait
\* for, flush or commit
LeftInRange(t, r) ==
    /\ reqs'[r].wb_hash
    /\ reqs'[r].wb_page >= idx_start(loc[t].start)
    /\ reqs'[r].wb_page <= idx_end(loc[t].start, loc[t].count)
    /\ \/ reqs'[r].busy
       \/ r \in Range(lists'[DirtyList])
       \/ r \in Range(lists'[CommitList])

\* C29: the do loop of nfs_sync_file goes round again only after a step that
\* took a positive count of requests and did not fail; nfs_sync_file returns
\* a negative error or 0, and 0 only from a nfs_commit_file that found
\* nothing, and then no request of the range is busy, dirty or waiting for a
\* COMMIT; and with the server answering, every call of nfs_sync_file
\* returns.
SyncFileTerminates ==
    /\ [][\A t \in Writers :
             /\ InSyncFile(t) /\ pc[t] \notin {"sy_top", "sy_waiting"}
                /\ pc'[t] = "sy_top"
                => /\ loc[t].fret \in {"sy_flushed", "sy_committed"}
                   /\ IF pc[t] = "cf_scan"
                      THEN nfs_scan_commit(Heap, HeadList(t), loc[t].start,
                                           loc[t].count).pages > 0
                      ELSE loc[t].error > 0
             /\ InSyncFile(t) /\ ~InSyncFile(t)'
                => /\ loc'[t].error <= 0
                   /\ loc'[t].error = 0
                      => /\ pc[t] = "cf_scan"
                         /\ \A r \in Reqs : ~LeftInRange(t, r)]_vars
    /\ \A t \in Writers : InSyncFile(t) ~> ~InSyncFile(t)

\* nfs_sync_file has returned 0 to nfs_strategy, whose nfs_wb_file found
\* requests in the hash, and has left none
SyncFileReturnedZero ==
    \E t \in Writers :
        /\ pc[t] = "upd_release"
        /\ ~InSyncFile(t)
        /\ loc[t].error = 0
        /\ npages = 0

\* C30: every request has wb_bytes > 0 and wb_offset + wb_bytes <=
\* PAGE_CACHE_SIZE, the writes given to nfs_updatepage having count > 0 and
\* offset + count <= PAGE_CACHE_SIZE.  A struct that nfs_create_request has
\* allocated and not yet filled in is not a request yet.
RegionInsidePage ==
    \A r \in Reqs :
        reqs[r].alive /\ ~(\E t \in Writers : pc[t] = "cr_init" /\ loc[t].new = r)
        => /\ reqs[r].wb_bytes > 0
           /\ reqs[r].wb_offset + reqs[r].wb_bytes <= PAGE_CACHE_SIZE

\* a write of the last byte of a page has widened the request of the page's
\* first bytes to the whole page
WidenedToPage ==
    \E t \in Writers, r \in Reqs :
        /\ pc[t] = "upd_ret"
        /\ loc[t].status = 0
        /\ loc[t].offset = PAGE_CACHE_SIZE - 1
        /\ reqs[r].wb_hash
        /\ reqs[r].wb_page = loc[t].page
        /\ reqs[r].wb_offset = 0
        /\ reqs[r].wb_bytes = PAGE_CACHE_SIZE

\* C31: on a mount whose wsize is below the page size nfs_updatepage makes
\* no request: the hash, the dirty and the commit list stay empty, no
\* nfs_page is in use, and nfs_nr_requests stays at what the other inodes
\* hold; the write has gone out in synchronous WRITE calls, and the caller
\* has the count of bytes written or the error.
UnbufferedWritesSync ==
    wsize < PAGE_CACHE_SIZE
    => /\ writeback = <<>>
       /\ lists[DirtyList] = <<>>
       /\ lists[CommitList] = <<>>
       /\ \A r \in Reqs : ~reqs[r].alive
       /\ nfs_nr_requests = others
       /\ \A k \in Rpcs : rpcs[k] = NoRpc
       /\ \A t \in Writers : pc[t] \in {"idle", "upd_ret"}
       /\ \A t \in Writers :
             pc[t] = "upd_ret"
             => \/ loc[t].status \in 1..loc[t].bytes
                \/ loc[t].status = 0 - EIO

\* on such a mount a write of a whole page has returned after two WRITE
\* calls
UnbufferedPageWritten ==
    \E t \in Writers :
        /\ wsize < PAGE_CACHE_SIZE
        /\ pc[t] = "upd_ret"
        /\ loc[t].bytes = PAGE_CACHE_SIZE
        /\ loc[t].status = PAGE_CACHE_SIZE

\* C32: the writeback hash of the inode never holds two requests of one
\* page index, whatever the interleaving of the calls of nfs_update_request
\* for one page.
OneRequestPerPage ==
    \A i, j \in 1..Len(writeback) :
        i # j => /\ writeback[i] # writeback[j]
                 /\ reqs[writeback[i]].wb_page # reqs[writeback[j]].wb_page

\* a writer comes back from nfs_create_request with a request for a page
\* whose request another writer has hashed meanwhile
LateRequestMeetsHashed ==
    \E t \in Writers, r \in Reqs :
        /\ pc[t] = "upd_find"
        /\ loc[t].new # NoReq
        /\ reqs[loc[t].new].alive
        /\ r # loc[t].new
        /\ reqs[r].wb_hash
        /\ reqs[r].wb_page = loc[t].page

\* C33: wb_offset and wb_bytes of a request change only in a step of a
\* writer in nfs_update_request that holds the request locked and has found
\* it on the dirty list; the range of a request that belongs to the batch of
\* a WRITE or COMMIT call in flight does not change until the completion
\* handler has dealt with the request.
RangeChangedOnlyByHolder ==
    [][\A r \in Reqs :
          /\ (/\ reqs[r].wb_hash /\ reqs'[r].alive
              /\ <<reqs'[r].wb_offset, reqs'[r].wb_bytes>>
                     # <<reqs[r].wb_offset, reqs[r].wb_bytes>>)
             => \E t \in Writers :
                   /\ pc[t] = "upd_locked"
                   /\ pc'[t] # "upd_locked"
                   /\ loc[t].req = r
                   /\ reqs[r].busy
                   /\ reqs[r].wb_list_head = DirtyList
          /\ (\E k \in Rpcs : r \in Range(lists[DataList(k)]) /\ reqs'[r].alive)
             => <<reqs'[r].wb_offset, reqs'[r].wb_bytes>>
                    = <<reqs[r].wb_offset, reqs[r].wb_bytes>>]_vars

\* a writer has put bytes in front of the range of the dirty request of its
\* page, which it held locked
WidenedAtFront ==
    \E t \in Writers, r \in Reqs :
        /\ pc[t] = "upd_ret"
        /\ loc[t].status = 0
        /\ reqs[r].wb_hash
        /\ reqs[r].wb_page = loc[t].page
        /\ reqs[r].wb_list_head = DirtyList
        /\ reqs[r].wb_offset = loc[t].offset
        /\ reqs[r].wb_bytes > loc[t].bytes

\* C34 as stated: when nfs_writedata_alloc fails in nfs_flush_one, the
\* flush returns -ENOMEM with every request that its scan had taken off the
\* dirty list back on it and ndirty back at its value before the scan.
FlushFailureRestoresScan ==
    [][\A t \in Threads :
          flush_list_step(t, TRUE)
          => /\ ndirty' = ndirty + loc[t].error
             /\ Len(lists'[DirtyList]) = Len(lists[DirtyList]) + loc[t].error]_vars

\* C34: when nfs_writedata_alloc fails in nfs_flush_one, the flush returns
\* -ENOMEM; every request of the batch that failed and every request not yet
\* coalesced is back on the dirty list, hashed and unlocked, and ndirty is
\* higher by their number; the requests of the batches sent before stay
\* with their WRITE calls; no request is lost or left locked on a list of
\* the flush.
FlushFailureRedirties ==
    [][\A t \in Threads :
          flush_list_step(t, TRUE)
          => LET back == Range(lists[HeadList(t)])
             IN  /\ \A r \in back :
                       /\ r \in Range(lists'[DirtyList])
                       /\ reqs'[r].wb_hash
                       /\ ~reqs'[r].busy
                 /\ ndirty' = ndirty + Cardinality(back)
                 /\ Range(lists'[DirtyList]) = Range(lists[DirtyList]) \cup back
                 /\ lists'[HeadList(t)] = <<>>
                 /\ lists'[OneList(t)] = <<>>
                 /\ \A k \in Rpcs : lists'[DataList(k)] = lists[DataList(k)]
                 /\ loc[t].fret # "idle" => loc'[t].error = 0 - ENOMEM]_vars

\* a flush that had sent one batch has failed on the next and has put its
\* request back on the dirty list, unlocked
SecondBatchRedirtied ==
    \E r \in Reqs, k \in Rpcs :
        /\ budget.fails < ErrFails
        /\ rpcs[k].kind = "write"
        /\ lists[DataList(k)] # <<>>
        /\ lists[DirtyList] = <<r>>
        /\ ~reqs[r].busy
        /\ \A t \in Threads : lists[HeadList(t)] = <<>> /\ pc[t] # "fl_loop"

\* C35: a WRITE reply without error that reports fewer bytes than asked for
\* is taken as a failure with -EIO: f_error becomes -EIO and each request
\* of the batch ends as after a call that failed with -EIO, out of the hash,
\* on no list, not counted in ncommit or ndirty, and unlocked.
ShortWriteFails ==
    [][\A k \in Rpcs, committed \in {NFS_UNSTABLE, NFS_DATA_SYNC, NFS_FILE_SYNC},
          verf \in Verfs \cup {0} :
          writeback_done_step(k, 0, TRUE, committed, verf)
          => LET r == Head(lists[DataList(k)])
                 failed == writeback_done_one(record_error(Heap, 0 - EIO, "write"),
                                              r, 0 - EIO, committed, verf)
             IN  /\ f_error' = 0 - EIO
                 /\ ~reqs'[r].wb_hash
                 /\ r \notin Range(writeback')
                 /\ \A l \in ListIds : r \notin Range(lists'[l])
                 /\ ~reqs'[r].busy
                 /\ ncommit' = ncommit
                 /\ ndirty' = ndirty
                 /\ npages' = npages - 1
                 /\ reqs' = failed.reqs
                 /\ lists' = failed.lists
                 /\ writeback' = failed.writeback]_vars

\* the handler is half way through the batch of a short reply: f_error holds
\* -EIO, the first request of the batch has left the hash and nothing waits
\* for a COMMIT
ShortWriteHalfDone ==
    \E k \in Rpcs :
        /\ rpcs[k].kind = "write"
        /\ rpcs[k].reply = <<0, TRUE, NFS_UNSTABLE, 0>>
        /\ lists[DataList(k)] # <<>>
        /\ f_error = 0 - EIO
        /\ lists[CommitList] = <<>>
        /\ ncommit = 0
        /\ Cardinality(Range(writeback)) = 1

\* C36: when a COMMIT call ends with an error status, nfs_commit_done
\* stores the status in f_error and takes each request of the batch out of
\* the inode: the request is no longer hashed, is on no list, neither the
\* commit list nor the dirty list, and is unlocked; ncommit and ndirty stay.
FailedCommitDropsBatch ==
    [][\A k \in Rpcs, status \in Statuses \ {0}, verf \in Verfs \cup {0} :
          commit_done_step(k, status, verf)
          => LET r == Head(lists[DataList(k)])
             IN  /\ f_error' = status
                 /\ ~reqs'[r].wb_hash
                 /\ r \notin Range(writeback')
                 /\ \A l \in ListIds : r \notin Range(lists'[l])
                 /\ ~reqs'[r].busy
                 /\ ~reqs'[r].wb_list
                 /\ ncommit' = ncommit
                 /\ ndirty' = ndirty
                 /\ npages' = npages - 1]_vars

\* the handler is half way through the batch of a COMMIT that timed out:
\* f_error holds the status, one request of the batch is gone and the other
\* is still locked on data->pages; the inode's lists are empty
FailedCommitHalfDone ==
    \E k \in Rpcs :
        /\ rpcs[k].kind = "commit"
        /\ rpcs[k].reply = <<0 - ETIMEDOUT, 0>>
        /\ Len(lists[DataList(k)]) = 1
        /\ reqs[Head(lists[DataList(k)])].busy
        /\ f_error = 0 - ETIMEDOUT
        /\ lists[CommitList] = <<>>
        /\ lists[DirtyList] = <<>>
        /\ npages = 1

StableWriteAnsweredUnstable ==
    [][\A k \in Rpcs, verf \in Verfs :
          (/\ rpcs[k].stable \in {NFS_DATA_SYNC, NFS_FILE_SYNC}
           /\ nfs_writeback_done(k, 0, FALSE, NFS_UNSTABLE, verf))
          => LET batch == Range(lists[DataList(k)])
             IN  /\ \A r \in batch :
                       /\ r \in Range(lists'[CommitList])
                       /\ r \notin Range(lists[CommitList])
                       /\ reqs'[r].wb_list_head = CommitList
                       /\ reqs'[r].wb_verf = verf
                       /\ reqs'[r].alive
                       /\ reqs'[r].wb_hash
                       /\ r \in Range(writeback')
                       /\ ~reqs'[r].busy
                 /\ batch # {}
                 /\ ncommit' = ncommit + Cardinality(batch)
                 /\ npages' = npages
                 /\ writeback' = writeback
                 /\ f_error' = f_error]_vars

\* the WRITE call of a writer with O_SYNC, made with FLUSH_STABLE, is done
\* and no other is in flight; the request of the writer's page is on the
\* commit list, hashed, with the second verifier
StableWriteOnCommitList ==
    \E t \in Writers, r \in Reqs :
        /\ loc[t].ret = "upd_syncret"
        /\ FLUSH_STABLE \in loc[t].how
        /\ \A k \in Rpcs : rpcs[k].kind \notin {"write", "commit"}
        /\ budget.writes = 0
        /\ reqs[r].wb_hash
        /\ reqs[r].wb_page = loc[t].page
        /\ r \in Range(lists[CommitList])
        /\ reqs[r].wb_verf = 2
        /\ ~reqs[r].busy

\* C39: none of the checks of nfs_inode_add_request,
\* nfs_inode_remove_request, nfs_list_add_request, nfs_list_remove_request
\* and nfs_unlock_request ever fires: a request is busy whenever it is put
\* into or taken out of the hash or a list, is hashed and on no list when it
\* is put on one, and is busy when it is unlocked.
ConsistencyChecksSilent ==
    hist.printk \cap {"unlocked request attempted hashed",
                      "unlocked request attempted unhashed",
                      "unlocked request attempted added to list",
                      "unlocked request attempted removed from list",
                      "Add to list failed",
                      "Unhashed request attempted added to a list",
                      "Invalid unlock attempted"} = {}

====
